---- MODULE Spec2Model ----
(***************************************************************************)
(* Model of the multi-draft depth orchestrator                             *)
(* (pipeline/podlib/depth_orchestrator.py).                                *)
(*                                                                         *)
(* A text is a finite sequence of symbols.  The four caller-supplied       *)
(* capabilities (generate, referee, polish, quality check) are the         *)
(* environment: each call returns a nondeterministically chosen text.      *)
(* The draft cache is the set of files under the cache directory, a        *)
(* partial function from paths to file contents; it outlives a run, so     *)
(* the model lets several runs follow one another over the same cache.     *)
(***************************************************************************)
EXTENDS Integers, Sequences, FiniteSets, TLC

VARIABLES
    pc,                 \* position of the current run in run_depth_pipeline
    run,                \* number of runs started so far
    depth,              \* argument depth
    cache_key_prefix,   \* argument cache_key_prefix
    continue_mode,      \* argument continue_mode
    cache,              \* files of the cache directory: path -> content
    cache0,             \* the cache as it was when the current run started
    draft_count,        \* local draft_count
    drafts,             \* local drafts
    brackets,           \* local brackets
    winner_labels,      \* the winner_label computed for each bracket so far
    winners,            \* local winners
    drafts_for_polish,  \* local drafts_for_polish
    best_unpolished,    \* local best_unpolished, <<>> until assigned
    polished,           \* local polished, <<>> until assigned
    issue,              \* local issue, <<>> until assigned
    result,             \* the returned text, <<>> until the run returns
    error,              \* the exception that ended the run, "none" otherwise
    genLog,             \* texts returned by generate_draft_fn in this run
    hitLog,             \* indices served from the cache in this run
    refLog,             \* argument pairs of the referee_fn calls of this run
    polishLog,          \* argument pairs of the polish_fn calls of this run
    qcLog,              \* arguments of the quality_check_fn calls of this run
    cacheReads,         \* paths given to _load_cached_draft in this run
    cacheWrites,        \* paths given to _save_draft_cache in this run
    thrown,             \* the exception a capability raised, "none" otherwise
    first,              \* what the run before a repeated run did, <<>> otherwise
    probe,              \* a direct call of one helper function: input and output
    logger,             \* argument logger: None or a callable
    logged              \* the lines the logger received in this run

vars == <<pc, run, depth, cache_key_prefix, continue_mode, cache, cache0,
          draft_count, drafts, brackets, winner_labels, winners,
          drafts_for_polish, best_unpolished, polished, issue, result, error,
          genLog, hitLog, refLog, polishLog, qcLog, cacheReads, cacheWrites,
          thrown, first, probe, logger, logged>>

(***************************************************************************)
(* Bounds.                                                                 *)
(***************************************************************************)
\* number of successive runs over one cache directory
MaxRuns == 2

(***************************************************************************)
(* Texts.                                                                  *)
(***************************************************************************)
EmptyText == <<>>

\* Python's None.
None == <<"n">>

\* An optional value: <<>> is "not assigned", <<v>> is the value v.
Some(v) == <<v>>

\* One tag per run and one per generate call of a run, so that every draft
\* the generate capability produces is told apart from every other one.
RunTag == <<"A", "B", "C", "D">>
CallTag == <<"1", "2", "3", "4", "5">>

\* generate_draft_fn() is opaque: it returns the empty text or a new text.
GenerateReturns(r, n) == {EmptyText, <<RunTag[r], CallTag[n]>>}

\* polish_fn(drafts, depth) is opaque: the empty text or a merged text.
PolishReturns == {EmptyText, <<"m">>}

\* quality_check_fn(text): "" when acceptable, else an issue description.
QualityReturns == {EmptyText, <<"bad">>}

\* The symbols that the regular expression \s and str.strip() treat as space.
IsSpace(c) == c \in {" ", "\n", "\r", "\t"}

(***************************************************************************)
(* Depth policy.  A call either raises or returns a value.                 *)
(***************************************************************************)
Raised(e) == [raised |-> e]
Returned(v) == [value |-> v]

\* Variant: the upper limit is off by one.
validate_depth_accepts_5(d) ==
    IF d \notin {1, 2, 3, 4, 5} THEN Raised("ValueError") ELSE Returned("None")

validate_depth(d) ==
    IF d \notin {1, 2, 3, 4} THEN Raised("ValueError") ELSE Returned("None")

compute_draft_count(d) ==
    IF validate_depth(d) # Returned("None") THEN validate_depth(d)
    ELSE Returned(d)

needs_referee(d) ==
    IF validate_depth(d) # Returned("None") THEN validate_depth(d)
    ELSE Returned(d = 4)

\* Variant: polish only from depth 3 on.
needs_polish_from_3(d) ==
    IF validate_depth(d) # Returned("None") THEN validate_depth(d)
    ELSE Returned(d > 2)

needs_polish(d) ==
    IF validate_depth(d) # Returned("None") THEN validate_depth(d)
    ELSE Returned(d >= 2)

(***************************************************************************)
(* Bracket builder: range(0, len(drafts) - 1, 2) pairs adjacent drafts.    *)
(***************************************************************************)
\* Variant: the range stops one pair early.
BracketCount_stops_early(n) == IF n - 2 <= 0 THEN 0 ELSE ((n - 2) + 1) \div 2

BracketCount(n) == IF n - 1 <= 0 THEN 0 ELSE ((n - 1) + 1) \div 2

\* Variant: each pair is built in the opposite order.
build_referee_brackets_swapped(ds) ==
    [k \in 1..BracketCount(Len(ds)) |-> <<ds[2 * (k - 1) + 2], ds[2 * (k - 1) + 1]>>]

build_referee_brackets(ds) ==
    [k \in 1..BracketCount(Len(ds)) |-> <<ds[2 * (k - 1) + 1], ds[2 * (k - 1) + 2]>>]

(***************************************************************************)
(* Winner parser.                                                          *)
(***************************************************************************)
\* re.IGNORECASE: the tag is recognised in any letter case.
OpenTags == {"<winner>", "<WINNER>", "<Winner>"}
CloseTags == {"</winner>", "</WINNER>", "</Winner>"}

\* str.lower(), symbol by symbol.
LowerSym(c) ==
    CASE c \in {"Draft", "DRAFT", "draft"} -> "draft"
      [] c = "A" -> "a"
      [] c = "B" -> "b"
      [] c = "C" -> "c"
      [] c = "D" -> "d"
      [] c = "X" -> "x"
      [] OTHER -> c

Lower(t) == [k \in 1..Len(t) |-> LowerSym(t[k])]

\* str.strip(): drop leading and trailing whitespace.
RECURSIVE LStrip(_)
LStrip(t) == IF t # <<>> /\ IsSpace(Head(t)) THEN LStrip(Tail(t)) ELSE t

RECURSIVE RStrip(_)
RStrip(t) ==
    IF t # <<>> /\ IsSpace(t[Len(t)]) THEN RStrip(SubSeq(t, 1, Len(t) - 1)) ELSE t

Strip(t) == RStrip(LStrip(t))

\* Positions of the closing tags after position s.
ClosesAfter(raw, s) == {e \in (s + 1)..Len(raw) : raw[e] \in CloseTags}

Min(S) == CHOOSE x \in S : \A y \in S : x <= y

\* The text between an opening tag at s and the first closing tag after it.
Enclosed(raw, s) == SubSeq(raw, s + 1, Min(ClosesAfter(raw, s)) - 1)

\* <winner>\s*(.*?)\s*</winner> matches at s: the lazy group stops at the
\* first closing tag, and "." does not match a newline, so apart from the
\* surrounding whitespace the enclosed text holds no newline.
MatchesAt(raw, s) ==
    /\ raw[s] \in OpenTags
    /\ ClosesAfter(raw, s) # {}
    /\ \A k \in 1..Len(Strip(Enclosed(raw, s))) : Strip(Enclosed(raw, s))[k] # "\n"

\* re.search: the leftmost position where the pattern matches.
MatchStarts(raw) == {s \in 1..Len(raw) : MatchesAt(raw, s)}

\* match.group(1) of the leftmost match.
Group1(raw) == Strip(Enclosed(raw, Min(MatchStarts(raw))))

\* Variant: a verdict without a marker goes to the first label.
parse_referee_winner_defaults_to_a(raw, label_a, label_b) ==
    IF MatchStarts(raw) = {} THEN label_a
    ELSE IF Lower(Strip(Group1(raw))) = Lower(Strip(label_a)) THEN label_a
    ELSE IF Lower(Strip(Group1(raw))) = Lower(Strip(label_b)) THEN label_b
    ELSE label_b

parse_referee_winner(raw, label_a, label_b) ==
    IF MatchStarts(raw) = {} THEN label_b
    ELSE IF Lower(Strip(Group1(raw))) = Lower(Strip(label_a)) THEN label_a
    ELSE IF Lower(Strip(Group1(raw))) = Lower(Strip(label_b)) THEN label_b
    ELSE label_b

(***************************************************************************)
(* Per-run draft cache.                                                    *)
(***************************************************************************)
Digits == <<"0", "1", "2", "3", "4", "5", "6", "7", "8", "9">>

\* str(n) for the small integers of the model.
IntStr(n) == IF n < 0 THEN <<"-", Digits[(-n) + 1]>> ELSE <<Digits[n + 1]>>

\* os.path.join(a, b) for a relative b.
PathJoin(a, b) == IF a = <<>> THEN b ELSE a \o <<"/">> \o b

cache_path(cache_dir, prefix, d, index) ==
    PathJoin(cache_dir, prefix \o <<"_d">> \o IntStr(d) \o <<"_i">> \o IntStr(index) \o <<".txt">>)

\* Reading a file opened with open(path, "r"): universal newlines turn
\* "\r\n" and a lone "\r" into "\n".
RECURSIVE ReadText(_)
ReadText(t) ==
    IF t = <<>> THEN <<>>
    ELSE IF Head(t) = "\r"
         THEN IF Len(t) >= 2 /\ t[2] = "\n"
              THEN <<"\n">> \o ReadText(Tail(Tail(t)))
              ELSE <<"\n">> \o ReadText(Tail(t))
         ELSE <<Head(t)>> \o ReadText(Tail(t))

\* Writing with open(path, "w") on a POSIX system: "\n" is written as is.
WriteText(t) == t

load_cached_draft(files, path) ==
    IF path \notin DOMAIN files THEN EmptyText ELSE ReadText(files[path])

\* Variant: the directory is emptied before the draft is written.
save_draft_cache_clears_dir(files, path, text) ==
    [p \in {path} |-> WriteText(text)]

save_draft_cache(files, path, text) ==
    [p \in (DOMAIN files) \cup {path} |-> IF p = path THEN WriteText(text) ELSE files[p]]

(***************************************************************************)
(* Inputs of a run and the environment's answers.                          *)
(***************************************************************************)
DepthInputs == -1..5
CacheDir == <<"cache">>
Prefixes == {<<"p">>}

\* A file that another stage, with another prefix, left in the directory.
OtherFile == cache_path(CacheDir, <<"q">>, 2, 0)

\* A file under the runs' own prefix that no run of depth 1 reads or writes.
StaleFile == cache_path(CacheDir, <<"p">>, 1, 1)
OtherFiles == [f \in {OtherFile, StaleFile} |-> IF f = OtherFile THEN <<"Q">> ELSE <<"S">>]

\* f"Draft {n}"
DraftLabel(n) == <<"Draft", " ">> \o IntStr(n)

\* referee_fn(draft_a, draft_b) is opaque: raw text, with or without a tag.
RefereeReturns ==
    {<<"<winner>">> \o DraftLabel(n) \o <<"</winner>", "<reason>">> : n \in 1..4}
    \cup {<<"<WINNER>", " ", "draft", " ", "1", "\n", "</winner>">>,
          <<"<winner>", "X", "</winner>">>,
          <<"X">>}

(***************************************************************************)
(* run_depth_pipeline.                                                     *)
(***************************************************************************)
InitLocals ==
    /\ pc = "idle"
    /\ run = 0
    /\ depth = 0
    /\ cache_key_prefix = <<>>
    /\ continue_mode = FALSE
    /\ draft_count = 0
    /\ drafts = <<>>
    /\ brackets = <<>>
    /\ winner_labels = <<>>
    /\ winners = <<>>
    /\ drafts_for_polish = <<>>
    /\ best_unpolished = <<>>
    /\ polished = <<>>
    /\ issue = <<>>
    /\ result = <<>>
    /\ error = "none"
    /\ genLog = <<>>
    /\ hitLog = <<>>
    /\ refLog = <<>>
    /\ polishLog = <<>>
    /\ qcLog = <<>>
    /\ cacheReads = <<>>
    /\ cacheWrites = <<>>
    /\ thrown = "none"
    /\ first = <<>>
    /\ logger = None
    /\ logged = <<>>

\* No run yet over a directory that holds other stages' files only.
InitRun ==
    /\ InitLocals
    /\ cache = OtherFiles
    /\ cache0 = OtherFiles

Init ==
    /\ InitRun
    /\ probe = [fn |-> "none"]

\* _log(logger, msg): the logger, if there is one, receives the line.
Log(msg) == IF logger = None THEN logged ELSE Append(logged, msg)

\* f"{i + 1}/{draft_count}" for the loop's current index.
DraftOfCount == IntStr(Len(drafts) + 1) \o <<"/">> \o IntStr(draft_count)

\* The call and lines 219-223: validate the depth, count the drafts.
EnterRun(d, prefix, cm, lg, files) ==
    /\ pc \in {"idle", "done", "failed"}
    /\ run < MaxRuns
    /\ run' = run + 1
    /\ depth' = d
    /\ cache_key_prefix' = prefix
    /\ continue_mode' = cm
    /\ cache' = files
    /\ cache0' = files
    /\ logger' = lg
    /\ logged' = <<>>
    /\ drafts' = <<>>
    /\ brackets' = <<>>
    /\ winner_labels' = <<>>
    /\ winners' = <<>>
    /\ drafts_for_polish' = <<>>
    /\ best_unpolished' = <<>>
    /\ polished' = <<>>
    /\ issue' = <<>>
    /\ result' = <<>>
    /\ genLog' = <<>>
    /\ hitLog' = <<>>
    /\ refLog' = <<>>
    /\ polishLog' = <<>>
    /\ qcLog' = <<>>
    /\ cacheReads' = <<>>
    /\ cacheWrites' = <<>>
    /\ IF validate_depth(d) # Returned("None")
       THEN /\ pc' = "failed"
            /\ error' = validate_depth(d).raised
            /\ draft_count' = 0
       ELSE /\ pc' = "generate"
            /\ error' = "none"
            /\ draft_count' = compute_draft_count(d).value
    /\ thrown' = "none"

\* A call without a logger, over the directory as it is.
BeginRun(d, prefix, cm) ==
    /\ EnterRun(d, prefix, cm, None, cache)
    /\ UNCHANGED probe

\* A call of run_depth_pipeline.
StartRun(d, prefix, cm) ==
    /\ BeginRun(d, prefix, cm)
    /\ UNCHANGED first

\* The path of the loop's current index i = len(drafts).
CacheFile == cache_path(CacheDir, cache_key_prefix, depth, Len(drafts))

\* Lines 227-232: continue mode and the cached text is non-empty.
IsCacheHit == continue_mode /\ load_cached_draft(cache, CacheFile) # EmptyText

\* Lines 224-232, one iteration served from the cache.
LoadCachedHit ==
    /\ pc = "generate"
    /\ Len(drafts) < draft_count
    /\ IsCacheHit
    /\ cacheReads' = Append(cacheReads, CacheFile)
    /\ hitLog' = Append(hitLog, Len(drafts))
    /\ drafts' = Append(drafts, load_cached_draft(cache, CacheFile))
    /\ logged' = Log(<<"Loaded cached draft ">> \o DraftOfCount)
    /\ UNCHANGED <<logger, thrown, first, probe, pc, run, depth, cache_key_prefix,
                   continue_mode, cache, cache0,
                   draft_count, brackets, winner_labels, winners,
                   drafts_for_polish, best_unpolished, polished, issue, result,
                   error, genLog, refLog, polishLog, qcLog, cacheWrites>>

\* Variant: the draft is saved only when there is no logger.
GenerateStep_consults_logger(draft) ==
    /\ cacheReads' = IF continue_mode THEN Append(cacheReads, CacheFile) ELSE cacheReads
    /\ genLog' = Append(genLog, draft)
    /\ cache' = IF logger = None THEN save_draft_cache(cache, CacheFile, draft) ELSE cache
    /\ cacheWrites' = Append(cacheWrites, CacheFile)
    /\ drafts' = Append(drafts, draft)
    /\ logged' = Log(<<"Generating draft ">> \o DraftOfCount)
    /\ UNCHANGED <<logger, thrown, first, probe, pc, run, depth, cache_key_prefix,
                   continue_mode, cache0,
                   draft_count, brackets, winner_labels, winners,
                   drafts_for_polish, best_unpolished, polished, issue, result,
                   error, hitLog, refLog, polishLog, qcLog>>

\* Lines 233-238: generate a draft, save it, append it.
GenerateStep(draft) ==
    /\ cacheReads' = IF continue_mode THEN Append(cacheReads, CacheFile) ELSE cacheReads
    /\ genLog' = Append(genLog, draft)
    /\ cache' = save_draft_cache(cache, CacheFile, draft)
    /\ cacheWrites' = Append(cacheWrites, CacheFile)
    /\ drafts' = Append(drafts, draft)
    /\ logged' = Log(<<"Generating draft ">> \o DraftOfCount)
    /\ UNCHANGED <<logger, thrown, first, probe, pc, run, depth, cache_key_prefix,
                   continue_mode, cache0,
                   draft_count, brackets, winner_labels, winners,
                   drafts_for_polish, best_unpolished, polished, issue, result,
                   error, hitLog, refLog, polishLog, qcLog>>

\* Lines 224-238, one iteration that generates and writes through.
GenerateDraft ==
    /\ pc = "generate"
    /\ Len(drafts) < draft_count
    /\ ~IsCacheHit
    /\ \E draft \in GenerateReturns(run, Len(genLog) + 1) : GenerateStep(draft)

\* Variant: depth 1 is not returned early and goes on to polish.
ReturnSingleDraft_falls_through ==
    /\ pc = "generate"
    /\ Len(drafts) = draft_count
    /\ depth = 1
    /\ best_unpolished' = Some(drafts[1])
    /\ drafts_for_polish' = drafts
    /\ pc' = "polish"
    /\ UNCHANGED <<logger, logged, thrown, first, probe, run, depth, cache_key_prefix,
                   continue_mode, cache, cache0,
                   draft_count, drafts, brackets, winner_labels, winners,
                   polished, issue, result, error,
                   genLog, hitLog, refLog, polishLog, qcLog, cacheReads, cacheWrites>>

\* Lines 240-242: depth 1 returns the single draft.
ReturnSingleDraft ==
    /\ pc = "generate"
    /\ Len(drafts) = draft_count
    /\ depth = 1
    /\ result' = Some(drafts[1])
    /\ pc' = "done"
    /\ UNCHANGED <<logger, logged, thrown, first, probe, run, depth, cache_key_prefix,
                   continue_mode, cache, cache0,
                   draft_count, drafts, brackets, winner_labels, winners,
                   drafts_for_polish, best_unpolished, polished, issue, error,
                   genLog, hitLog, refLog, polishLog, qcLog, cacheReads, cacheWrites>>

\* Lines 245-249: depth 4 builds the brackets.
BeginReferee ==
    /\ pc = "generate"
    /\ Len(drafts) = draft_count
    /\ depth # 1
    /\ needs_referee(depth) = Returned(TRUE)
    /\ best_unpolished' = Some(drafts[1])
    /\ brackets' = build_referee_brackets(drafts)
    /\ winners' = <<>>
    /\ pc' = "referee"
    /\ logged' = Log(<<"Running referee brackets">>)
    /\ UNCHANGED <<logger, thrown, first, probe, run, depth, cache_key_prefix, continue_mode,
                   cache, cache0,
                   draft_count, drafts, winner_labels, drafts_for_polish,
                   polished, issue, result, error,
                   genLog, hitLog, refLog, polishLog, qcLog, cacheReads, cacheWrites>>

\* Variant: the branches are exchanged.
PickWinner_exchanged(winner_label, label_a, draft_a, draft_b) ==
    IF winner_label = label_a THEN draft_b ELSE draft_a

\* Lines 256-259: the draft text of the winning label.
PickWinner(winner_label, label_a, draft_a, draft_b) ==
    IF winner_label = label_a THEN draft_a ELSE draft_b

\* Variant: after a bracket is judged, generate is called once more.
RefereeBracket_regenerates(raw_result) ==
    /\ pc = "referee"
    /\ Len(winners) < Len(brackets)
    /\ LET bracket_idx == Len(winners)
           draft_a == brackets[bracket_idx + 1][1]
           draft_b == brackets[bracket_idx + 1][2]
           label_a == DraftLabel(bracket_idx * 2 + 1)
           label_b == DraftLabel(bracket_idx * 2 + 2)
           winner_label == parse_referee_winner(raw_result, label_a, label_b)
       IN  /\ refLog' = Append(refLog, <<draft_a, draft_b>>)
           /\ genLog' = Append(genLog, raw_result)
           /\ winner_labels' = Append(winner_labels, winner_label)
           /\ winners' = Append(winners, PickWinner(winner_label, label_a, draft_a, draft_b))
    /\ UNCHANGED <<logger, logged, thrown, first, probe, pc, run, depth, cache_key_prefix,
                   continue_mode, cache, cache0,
                   draft_count, drafts, brackets, drafts_for_polish,
                   best_unpolished, polished, issue, result, error,
                   hitLog, polishLog, qcLog, cacheReads, cacheWrites>>

\* Lines 250-259: one bracket, bracket_idx = len(winners).
RefereeBracket(raw_result) ==
    /\ pc = "referee"
    /\ Len(winners) < Len(brackets)
    /\ LET bracket_idx == Len(winners)
           draft_a == brackets[bracket_idx + 1][1]
           draft_b == brackets[bracket_idx + 1][2]
           label_a == DraftLabel(bracket_idx * 2 + 1)
           label_b == DraftLabel(bracket_idx * 2 + 2)
           winner_label == parse_referee_winner(raw_result, label_a, label_b)
       IN  /\ refLog' = Append(refLog, <<draft_a, draft_b>>)
           /\ winner_labels' = Append(winner_labels, winner_label)
           /\ winners' = Append(winners, PickWinner(winner_label, label_a, draft_a, draft_b))
    /\ UNCHANGED <<logger, logged, thrown, first, probe, pc, run, depth, cache_key_prefix,
                   continue_mode, cache, cache0,
                   draft_count, drafts, brackets, drafts_for_polish,
                   best_unpolished, polished, issue, result, error,
                   genLog, hitLog, polishLog, qcLog, cacheReads, cacheWrites>>

\* Variant: the fallback stays the first draft.
EndReferee_keeps_first_draft ==
    /\ pc = "referee"
    /\ Len(winners) = Len(brackets)
    /\ drafts_for_polish' = winners
    /\ pc' = "polish"
    /\ UNCHANGED <<logger, logged, thrown, first, probe, run, depth, cache_key_prefix,
                   continue_mode, cache, cache0,
                   draft_count, drafts, brackets, winner_labels, winners,
                   best_unpolished, polished, issue, result, error,
                   genLog, hitLog, refLog, polishLog, qcLog, cacheReads, cacheWrites>>

\* Lines 260-263: the winners feed polish, the first one is the fallback.
EndReferee ==
    /\ pc = "referee"
    /\ Len(winners) = Len(brackets)
    /\ drafts_for_polish' = winners
    /\ best_unpolished' = Some(winners[1])
    /\ pc' = "polish"
    /\ UNCHANGED <<logger, logged, thrown, first, probe, run, depth, cache_key_prefix,
                   continue_mode, cache, cache0,
                   draft_count, drafts, brackets, winner_labels, winners,
                   polished, issue, result, error,
                   genLog, hitLog, refLog, polishLog, qcLog, cacheReads, cacheWrites>>

\* Variant: only the first two drafts are sent to polish.
SkipReferee_first_two ==
    /\ pc = "generate"
    /\ Len(drafts) = draft_count
    /\ depth # 1
    /\ needs_referee(depth) = Returned(FALSE)
    /\ best_unpolished' = Some(drafts[1])
    /\ drafts_for_polish' = SubSeq(drafts, 1, 2)
    /\ pc' = "polish"
    /\ UNCHANGED <<logger, logged, thrown, first, probe, run, depth, cache_key_prefix,
                   continue_mode, cache, cache0,
                   draft_count, drafts, brackets, winner_labels, winners,
                   polished, issue, result, error,
                   genLog, hitLog, refLog, polishLog, qcLog, cacheReads, cacheWrites>>

\* Lines 245-246 and 264-266: depth 2 and 3 send every draft to polish.
SkipReferee ==
    /\ pc = "generate"
    /\ Len(drafts) = draft_count
    /\ depth # 1
    /\ needs_referee(depth) = Returned(FALSE)
    /\ best_unpolished' = Some(drafts[1])
    /\ drafts_for_polish' = drafts
    /\ pc' = "polish"
    /\ UNCHANGED <<logger, logged, thrown, first, probe, run, depth, cache_key_prefix,
                   continue_mode, cache, cache0,
                   draft_count, drafts, brackets, winner_labels, winners,
                   polished, issue, result, error,
                   genLog, hitLog, refLog, polishLog, qcLog, cacheReads, cacheWrites>>

\* Variant: polish is given the number of drafts instead of the depth.
PolishPass_passes_count(text) ==
    /\ pc = "polish"
    /\ polishLog' = Append(polishLog, <<drafts_for_polish, Len(drafts_for_polish)>>)
    /\ polished' = Some(text)
    /\ pc' = "quality"
    /\ logged' = Log(<<"Running polish pass">>)
    /\ UNCHANGED <<logger, thrown, first, probe, run, depth, cache_key_prefix, continue_mode,
                   cache, cache0,
                   draft_count, drafts, brackets, winner_labels, winners,
                   drafts_for_polish, best_unpolished, issue, result, error,
                   genLog, hitLog, refLog, qcLog, cacheReads, cacheWrites>>

\* Lines 268-270: the polish pass.
PolishPass(text) ==
    /\ pc = "polish"
    /\ polishLog' = Append(polishLog, <<drafts_for_polish, depth>>)
    /\ polished' = Some(text)
    /\ pc' = "quality"
    /\ logged' = Log(<<"Running polish pass">>)
    /\ UNCHANGED <<logger, thrown, first, probe, run, depth, cache_key_prefix, continue_mode,
                   cache, cache0,
                   draft_count, drafts, brackets, winner_labels, winners,
                   drafts_for_polish, best_unpolished, issue, result, error,
                   genLog, hitLog, refLog, qcLog, cacheReads, cacheWrites>>

\* Variant: the gate inspects the fallback draft instead of the polished text.
QualityCheck_on_fallback(verdict) ==
    /\ pc = "quality"
    /\ qcLog' = Append(qcLog, best_unpolished[1])
    /\ issue' = Some(verdict)
    /\ result' = IF verdict # EmptyText THEN best_unpolished ELSE polished
    /\ pc' = "done"
    /\ logged' = IF verdict # EmptyText
                 THEN Log(<<"Quality check failed: ">> \o verdict
                          \o <<"; falling back to best unpolished draft">>)
                 ELSE logged
    /\ UNCHANGED <<logger, thrown, first, probe, run, depth, cache_key_prefix, continue_mode,
                   cache, cache0,
                   draft_count, drafts, brackets, winner_labels, winners,
                   drafts_for_polish, best_unpolished, polished, error,
                   genLog, hitLog, refLog, polishLog, cacheReads, cacheWrites>>

\* Lines 272-278: the quality gate and the return.
QualityCheck(verdict) ==
    /\ pc = "quality"
    /\ qcLog' = Append(qcLog, polished[1])
    /\ issue' = Some(verdict)
    /\ result' = IF verdict # EmptyText THEN best_unpolished ELSE polished
    /\ pc' = "done"
    /\ logged' = IF verdict # EmptyText
                 THEN Log(<<"Quality check failed: ">> \o verdict
                          \o <<"; falling back to best unpolished draft">>)
                 ELSE logged
    /\ UNCHANGED <<logger, thrown, first, probe, run, depth, cache_key_prefix, continue_mode,
                   cache, cache0,
                   draft_count, drafts, brackets, winner_labels, winners,
                   drafts_for_polish, best_unpolished, polished, error,
                   genLog, hitLog, refLog, polishLog, cacheReads, cacheWrites>>

(***************************************************************************)
(* A capability that raises.  run_depth_pipeline has no try statement, so  *)
(* the exception leaves it at the call.                                    *)
(***************************************************************************)
\* Line 235: generate_draft_fn raises; nothing is saved for this index.
GenerateRaises ==
    /\ pc = "generate"
    /\ Len(drafts) < draft_count
    /\ ~IsCacheHit
    /\ cacheReads' = IF continue_mode THEN Append(cacheReads, CacheFile) ELSE cacheReads
    /\ thrown' = "GenerateError"
    /\ error' = "GenerateError"
    /\ pc' = "failed"
    /\ logged' = Log(<<"Generating draft ">> \o DraftOfCount)
    /\ UNCHANGED <<logger, first, probe, run, depth, cache_key_prefix, continue_mode, cache,
                   cache0, draft_count, drafts, brackets, winner_labels, winners,
                   drafts_for_polish, best_unpolished, polished, issue, result,
                   genLog, hitLog, refLog, polishLog, qcLog, cacheWrites>>

\* Line 253: referee_fn raises.
RefereeRaises ==
    /\ pc = "referee"
    /\ Len(winners) < Len(brackets)
    /\ refLog' = Append(refLog, brackets[Len(winners) + 1])
    /\ thrown' = "RefereeError"
    /\ error' = "RefereeError"
    /\ pc' = "failed"
    /\ UNCHANGED <<logger, logged, first, probe, run, depth, cache_key_prefix, continue_mode, cache,
                   cache0, draft_count, drafts, brackets, winner_labels, winners,
                   drafts_for_polish, best_unpolished, polished, issue, result,
                   genLog, hitLog, polishLog, qcLog, cacheReads, cacheWrites>>

\* Variant: a failing polish is caught and the fallback draft is returned.
PolishRaises_caught ==
    /\ pc = "polish"
    /\ polishLog' = Append(polishLog, <<drafts_for_polish, depth>>)
    /\ thrown' = "PolishError"
    /\ result' = best_unpolished
    /\ pc' = "done"
    /\ logged' = Log(<<"Running polish pass">>)
    /\ UNCHANGED <<logger, first, probe, run, depth, cache_key_prefix, continue_mode, cache,
                   cache0, draft_count, drafts, brackets, winner_labels, winners,
                   drafts_for_polish, best_unpolished, polished, issue, error,
                   genLog, hitLog, refLog, qcLog, cacheReads, cacheWrites>>

\* Line 270: polish_fn raises.
PolishRaises ==
    /\ pc = "polish"
    /\ polishLog' = Append(polishLog, <<drafts_for_polish, depth>>)
    /\ thrown' = "PolishError"
    /\ error' = "PolishError"
    /\ pc' = "failed"
    /\ logged' = Log(<<"Running polish pass">>)
    /\ UNCHANGED <<logger, first, probe, run, depth, cache_key_prefix, continue_mode, cache,
                   cache0, draft_count, drafts, brackets, winner_labels, winners,
                   drafts_for_polish, best_unpolished, polished, issue, result,
                   genLog, hitLog, refLog, qcLog, cacheReads, cacheWrites>>

\* Line 273: quality_check_fn raises.
QualityRaises ==
    /\ pc = "quality"
    /\ qcLog' = Append(qcLog, polished[1])
    /\ thrown' = "QualityError"
    /\ error' = "QualityError"
    /\ pc' = "failed"
    /\ UNCHANGED <<logger, logged, first, probe, run, depth, cache_key_prefix, continue_mode, cache,
                   cache0, draft_count, drafts, brackets, winner_labels, winners,
                   drafts_for_polish, best_unpolished, polished, issue, result,
                   genLog, hitLog, refLog, polishLog, cacheReads, cacheWrites>>

Next ==
    \/ \E d \in DepthInputs, prefix \in Prefixes, cm \in BOOLEAN : StartRun(d, prefix, cm)
    \/ LoadCachedHit
    \/ GenerateDraft
    \/ ReturnSingleDraft
    \/ BeginReferee
    \/ \E raw_result \in RefereeReturns : RefereeBracket(raw_result)
    \/ EndReferee
    \/ SkipReferee
    \/ \E text \in PolishReturns : PolishPass(text)
    \/ \E verdict \in QualityReturns : QualityCheck(verdict)

\* Runs in which every capability call returns.
Spec == Init /\ [][Next]_vars

\* The first call of run_depth_pipeline over the directory.
FirstRun ==
    /\ run = 0
    /\ \E d \in DepthInputs, prefix \in Prefixes, cm \in BOOLEAN : StartRun(d, prefix, cm)

\* After a capability raised: the run is started again in continue mode with
\* the same cache_dir, cache_key_prefix and depth.
RetryRun ==
    /\ pc = "failed"
    /\ thrown # "none"
    /\ BeginRun(depth, cache_key_prefix, TRUE)
    /\ UNCHANGED first

\* Runs in which a capability call may also raise.
NextFaults ==
    \/ FirstRun
    \/ RetryRun
    \/ LoadCachedHit
    \/ GenerateDraft
    \/ ReturnSingleDraft
    \/ BeginReferee
    \/ \E raw_result \in RefereeReturns : RefereeBracket(raw_result)
    \/ EndReferee
    \/ SkipReferee
    \/ \E text \in PolishReturns : PolishPass(text)
    \/ \E verdict \in QualityReturns : QualityCheck(verdict)
    \/ GenerateRaises
    \/ RefereeRaises
    \/ PolishRaises
    \/ QualityRaises

SpecFaults == Init /\ [][NextFaults]_vars

(***************************************************************************)
(* A run followed by continue-mode runs with the same cache_dir,           *)
(* cache_key_prefix and depth, each over the cache as the run before it    *)
(* left it.  `first` keeps what the run before returned and how the        *)
(* capabilities answered it.                                               *)
(***************************************************************************)
Rerun ==
    /\ pc = "done"
    /\ BeginRun(depth, cache_key_prefix, TRUE)
    /\ first' = Some([result |-> result,
                      refLog |-> refLog,
                      winner_labels |-> winner_labels,
                      polishLog |-> polishLog,
                      polished |-> polished,
                      qcLog |-> qcLog,
                      issue |-> issue])

NextRerun ==
    \/ FirstRun
    \/ Rerun
    \/ LoadCachedHit
    \/ GenerateDraft
    \/ ReturnSingleDraft
    \/ BeginReferee
    \/ \E raw_result \in RefereeReturns : RefereeBracket(raw_result)
    \/ EndReferee
    \/ SkipReferee
    \/ \E text \in PolishReturns : PolishPass(text)
    \/ \E verdict \in QualityReturns : QualityCheck(verdict)

SpecRerun == Init /\ [][NextRerun]_vars

(***************************************************************************)
(* A run in which generate may raise, taken up again in continue mode with *)
(* the same cache_dir, cache_key_prefix and depth.  `first` keeps the      *)
(* index at which generate raised.                                         *)
(***************************************************************************)
ResumeRun ==
    /\ pc = "failed"
    /\ thrown = "GenerateError"
    /\ BeginRun(depth, cache_key_prefix, TRUE)
    /\ first' = Some([failed_at |-> Len(drafts)])

NextResume ==
    \/ FirstRun
    \/ ResumeRun
    \/ LoadCachedHit
    \/ GenerateDraft
    \/ GenerateRaises
    \/ ReturnSingleDraft
    \/ BeginReferee
    \/ \E raw_result \in RefereeReturns : RefereeBracket(raw_result)
    \/ EndReferee
    \/ SkipReferee
    \/ \E text \in PolishReturns : PolishPass(text)
    \/ \E verdict \in QualityReturns : QualityCheck(verdict)

SpecResume == Init /\ [][NextResume]_vars

(***************************************************************************)
(* The bracket loop of lines 250-259 with its iterations taken in any      *)
(* order and overlapping, beside the loop as written.  Iteration k reads   *)
(* brackets[k] and bracket_idx only.  `first` keeps the referee, the       *)
(* comparisons under way, the winner of each finished one and the order in *)
(* which they finished; the run's own variables hold the loop as written.  *)
(***************************************************************************)
\* A referee whose verdict depends on the pair it is given: one text when
\* the first draft of the pair is empty, another one otherwise.
Referees == RefereeReturns \X RefereeReturns

RefereeOf(referee, draft_a, draft_b) ==
    IF draft_a = EmptyText THEN referee[1] ELSE referee[2]

StartBrackets ==
    /\ run = 0
    /\ \E prefix \in Prefixes, cm \in BOOLEAN : BeginRun(4, prefix, cm)
    /\ \E referee \in Referees :
           first' = Some([referee |-> referee, raw |-> <<>>, slots |-> <<>>,
                          finished |-> <<>>, drafts_for_polish |-> <<>>,
                          best_unpolished |-> <<>>])

\* Line 253 for the next bracket in order, the referee being first[1].referee.
RefereeInOrder ==
    /\ pc = "referee"
    /\ Len(winners) < Len(brackets)
    /\ RefereeBracket(RefereeOf(first[1].referee,
                                brackets[Len(winners) + 1][1],
                                brackets[Len(winners) + 1][2]))

\* Line 253 for any bracket not yet started.
StartComparison(bracket_idx) ==
    /\ pc = "referee"
    /\ bracket_idx \in 0..(Len(brackets) - 1)
    /\ bracket_idx \notin DOMAIN first[1].raw
    /\ bracket_idx \notin DOMAIN first[1].slots
    /\ LET draft_a == brackets[bracket_idx + 1][1]
           draft_b == brackets[bracket_idx + 1][2]
           raw_result == RefereeOf(first[1].referee, draft_a, draft_b)
       IN  first' = Some([first[1] EXCEPT
                          !.raw = (bracket_idx :> raw_result) @@ first[1].raw])
    /\ UNCHANGED <<logger, logged, thrown, probe, pc, run, depth, cache_key_prefix,
                   continue_mode, cache, cache0,
                   draft_count, drafts, brackets, winner_labels, winners,
                   drafts_for_polish,
                   best_unpolished, polished, issue, result, error,
                   genLog, hitLog, refLog, polishLog, qcLog, cacheReads, cacheWrites>>

\* Lines 254-259 for a bracket whose verdict has come back.
FinishComparison(bracket_idx) ==
    /\ pc = "referee"
    /\ bracket_idx \in DOMAIN first[1].raw
    /\ LET draft_a == brackets[bracket_idx + 1][1]
           draft_b == brackets[bracket_idx + 1][2]
           label_a == DraftLabel(bracket_idx * 2 + 1)
           label_b == DraftLabel(bracket_idx * 2 + 2)
           winner_label == parse_referee_winner(first[1].raw[bracket_idx], label_a, label_b)
           winner == PickWinner(winner_label, label_a, draft_a, draft_b)
       IN  first' = Some([first[1] EXCEPT
                          !.raw = [k \in DOMAIN first[1].raw \ {bracket_idx} |-> first[1].raw[k]],
                          !.slots = (bracket_idx :> winner) @@ first[1].slots,
                          !.finished = Append(first[1].finished, bracket_idx)])
    /\ UNCHANGED <<logger, logged, thrown, probe, pc, run, depth, cache_key_prefix,
                   continue_mode, cache, cache0,
                   draft_count, drafts, brackets, winner_labels, winners,
                   drafts_for_polish,
                   best_unpolished, polished, issue, result, error,
                   genLog, hitLog, refLog, polishLog, qcLog, cacheReads, cacheWrites>>

\* Variant: the survivors are taken in the order the comparisons finished.
Reassemble_as_finished(slots, finished) ==
    [i \in 1..Len(finished) |-> slots[finished[i]]]

\* The survivors put back in bracket order.
Reassemble(slots, finished) ==
    [i \in 1..Len(finished) |-> slots[i - 1]]

\* Lines 260-263 once every comparison has finished, on both sides.
EndBrackets ==
    /\ pc = "referee"
    /\ Len(first[1].finished) = Len(brackets)
    /\ Len(winners) = Len(brackets)
    /\ drafts_for_polish' = winners
    /\ best_unpolished' = Some(winners[1])
    /\ pc' = "polish"
    /\ LET survivors == Reassemble(first[1].slots, first[1].finished)
       IN  first' = Some([first[1] EXCEPT !.drafts_for_polish = survivors,
                                          !.best_unpolished = Some(survivors[1])])
    /\ UNCHANGED <<logger, logged, thrown, probe, run, depth, cache_key_prefix,
                   continue_mode, cache, cache0,
                   draft_count, drafts, brackets, winner_labels, winners,
                   polished, issue, result, error,
                   genLog, hitLog, refLog, polishLog, qcLog, cacheReads, cacheWrites>>

NextBrackets ==
    \/ StartBrackets
    \/ GenerateDraft
    \/ BeginReferee
    \/ RefereeInOrder
    \/ \E bracket_idx \in 0..(Len(brackets) - 1) : StartComparison(bracket_idx)
    \/ \E bracket_idx \in 0..(Len(brackets) - 1) : FinishComparison(bracket_idx)
    \/ EndBrackets
    \/ \E text \in PolishReturns : PolishPass(text)
    \/ \E verdict \in QualityReturns : QualityCheck(verdict)

SpecBrackets == Init /\ [][NextBrackets]_vars

(***************************************************************************)
(* Two calls of run_depth_pipeline in continue mode at the same time, with *)
(* the same cache_dir, cache_key_prefix and depth, followed by a third     *)
(* call once both have left the generate loop.  Nothing in lines 224-238   *)
(* or in the two cache helpers takes a lock, so the steps of the two loops *)
(* interleave: the read of line 228, the call of line 235, and the two     *)
(* system calls of _save_draft_cache, open(path, "w") which empties the    *)
(* file and the write at offset 0 when the file is closed.  `first` keeps  *)
(* the two calls' locals; the third call uses the run's own variables.     *)
(***************************************************************************)
Procs == {1, 2}

RacePrefix == <<"p">>

\* generate_draft_fn of each call answers with texts of its own; those of the
\* second call may be shorter.
RaceReturns(proc, n) ==
    GenerateReturns(proc + 2, n) \cup (IF proc = 2 THEN {<<"b">>} ELSE {})

RacePath(i) == cache_path(CacheDir, RacePrefix, first[1].depth, i)

\* Line 167: open(path, "w") creates the file or cuts it to length zero.
open_for_write(files, path) ==
    [p \in (DOMAIN files) \cup {path} |-> IF p = path THEN <<>> ELSE files[p]]

\* Variant: the text is written after what the file holds.
write_after_end(files, path, text) ==
    [files EXCEPT ![path] = @ \o WriteText(text)]

\* Line 168: the text is written from offset 0 of the file as it is then;
\* what another writer left beyond the text's length stays.
write_at_start(files, path, text) ==
    [files EXCEPT ![path] =
        WriteText(text) \o SubSeq(@, Len(WriteText(text)) + 1, Len(@))]

AfterIteration(n, d) == IF n = d THEN "done" ELSE "load"

StartRace ==
    /\ pc = "idle" /\ run = 0 /\ first = <<>>
    /\ \E d \in {1, 2} :
           first' = Some([depth |-> d,
                          procs |-> [proc \in Procs |->
                                        [at |-> "load", drafts |-> <<>>,
                                         generated |-> {}, draft |-> <<>>]],
                          writes |-> <<>>])
    /\ UNCHANGED cache
    /\ UNCHANGED <<logger, logged, thrown, probe, pc, run, depth, cache_key_prefix,
                   continue_mode, cache0,
                   draft_count, drafts, brackets, winner_labels, winners,
                   drafts_for_polish,
                   best_unpolished, polished, issue, result, error,
                   genLog, hitLog, refLog, polishLog, qcLog, cacheReads, cacheWrites>>

\* Lines 227-232 of one call: the read, then a hit or a miss.
RaceLoad(proc) ==
    /\ first # <<>>
    /\ first[1].procs[proc].at = "load"
    /\ LET me == first[1].procs[proc]
           cached == load_cached_draft(cache, RacePath(Len(me.drafts)))
       IN  IF cached # EmptyText
           THEN first' = Some([first[1] EXCEPT
                    !.procs[proc].drafts = Append(me.drafts, cached),
                    !.procs[proc].at = AfterIteration(Len(me.drafts) + 1, first[1].depth)])
           ELSE first' = Some([first[1] EXCEPT !.procs[proc].at = "generate"])
    /\ UNCHANGED cache
    /\ UNCHANGED <<logger, logged, thrown, probe, pc, run, depth, cache_key_prefix,
                   continue_mode, cache0,
                   draft_count, drafts, brackets, winner_labels, winners,
                   drafts_for_polish,
                   best_unpolished, polished, issue, result, error,
                   genLog, hitLog, refLog, polishLog, qcLog, cacheReads, cacheWrites>>

\* Line 235 of one call.
RaceGenerate(proc) ==
    /\ first # <<>>
    /\ first[1].procs[proc].at = "generate"
    /\ LET me == first[1].procs[proc]
       IN  \E draft \in RaceReturns(proc, Len(me.drafts) + 1) :
               first' = Some([first[1] EXCEPT
                    !.procs[proc].draft = draft,
                    !.procs[proc].generated = me.generated \cup {Len(me.drafts)},
                    !.procs[proc].at = "open"])
    /\ UNCHANGED cache
    /\ UNCHANGED <<logger, logged, thrown, probe, pc, run, depth, cache_key_prefix,
                   continue_mode, cache0,
                   draft_count, drafts, brackets, winner_labels, winners,
                   drafts_for_polish,
                   best_unpolished, polished, issue, result, error,
                   genLog, hitLog, refLog, polishLog, qcLog, cacheReads, cacheWrites>>

\* Line 167 of one call.
RaceOpen(proc) ==
    /\ first # <<>>
    /\ first[1].procs[proc].at = "open"
    /\ cache' = open_for_write(cache, RacePath(Len(first[1].procs[proc].drafts)))
    /\ first' = Some([first[1] EXCEPT !.procs[proc].at = "write"])
    /\ UNCHANGED <<logger, logged, thrown, probe, pc, run, depth, cache_key_prefix,
                   continue_mode, cache0,
                   draft_count, drafts, brackets, winner_labels, winners,
                   drafts_for_polish,
                   best_unpolished, polished, issue, result, error,
                   genLog, hitLog, refLog, polishLog, qcLog, cacheReads, cacheWrites>>

\* Lines 168 and 238 of one call.
RaceWrite(proc) ==
    /\ first # <<>>
    /\ first[1].procs[proc].at = "write"
    /\ LET me == first[1].procs[proc]
       IN  /\ cache' = write_at_start(cache, RacePath(Len(me.drafts)), me.draft)
           /\ first' = Some([first[1] EXCEPT
                    !.procs[proc].drafts = Append(me.drafts, me.draft),
                    !.procs[proc].at = AfterIteration(Len(me.drafts) + 1, first[1].depth),
                    !.writes = Append(first[1].writes, <<proc, Len(me.drafts)>>)])
    /\ UNCHANGED <<logger, logged, thrown, probe, pc, run, depth, cache_key_prefix,
                   continue_mode, cache0,
                   draft_count, drafts, brackets, winner_labels, winners,
                   drafts_for_polish,
                   best_unpolished, polished, issue, result, error,
                   genLog, hitLog, refLog, polishLog, qcLog, cacheReads, cacheWrites>>

BothLeftLoop == first # <<>> /\ \A proc \in Procs : first[1].procs[proc].at = "done"

\* The call made after the two.
LaterRun ==
    /\ BothLeftLoop
    /\ run = 0
    /\ BeginRun(first[1].depth, RacePrefix, TRUE)
    /\ UNCHANGED first

NextRace ==
    \/ StartRace
    \/ \E proc \in Procs : RaceLoad(proc)
    \/ \E proc \in Procs : RaceGenerate(proc)
    \/ \E proc \in Procs : RaceOpen(proc)
    \/ \E proc \in Procs : RaceWrite(proc)
    \/ LaterRun
    \/ LoadCachedHit
    \/ GenerateDraft
    \/ ReturnSingleDraft
    \/ SkipReferee
    \/ \E text \in PolishReturns : PolishPass(text)
    \/ \E verdict \in QualityReturns : QualityCheck(verdict)

SpecRace == Init /\ [][NextRace]_vars

(***************************************************************************)
(* The Bluesky stage run several times over the same output directory:     *)
(* main calls generate_bluesky_text_with_llm with the blog text it loaded, *)
(* the depth_cache directory beside the output and continue_mode=True, and *)
(* the pipeline is entered with prefix "bluesky" when depth is 2 or more.  *)
(* `first` keeps the blog text of the invocation.                          *)
(***************************************************************************)
BlogTexts == {"blog1", "blog2"}

\* _generate_one_draft: the prompt is built from blog_text, so a draft is a
\* text about that blog, or empty after normalisation.
BlueskyDrafts(blog_text, n) == {EmptyText, <<blog_text, CallTag[n]>>}

\* main, lines 485-498, and generate_bluesky_text_with_llm down to line 404.
InvokeBluesky ==
    /\ \E blog_text \in BlogTexts, d \in 2..4 :
           /\ BeginRun(d, <<"bluesky">>, TRUE)
           /\ first' = Some([blog_text |-> blog_text])

\* Line 235 with generate_draft_fn = _generate_one_draft.
BlueskyGenerate ==
    /\ pc = "generate"
    /\ Len(drafts) < draft_count
    /\ ~IsCacheHit
    /\ \E draft \in BlueskyDrafts(first[1].blog_text, Len(genLog) + 1) : GenerateStep(draft)

NextBluesky ==
    \/ InvokeBluesky
    \/ LoadCachedHit
    \/ BlueskyGenerate
    \/ BeginReferee
    \/ \E raw_result \in RefereeReturns : RefereeBracket(raw_result)
    \/ EndReferee
    \/ SkipReferee
    \/ \E text \in PolishReturns : PolishPass(text)
    \/ \E verdict \in QualityReturns : QualityCheck(verdict)

SpecBluesky == Init /\ [][NextBluesky]_vars

(***************************************************************************)
(* The same call made twice, without and with a logger, each over the      *)
(* directory as an earlier run left it.  In the second call generate       *)
(* returns what it returned in the first; `first` keeps what the first     *)
(* call did.                                                               *)
(***************************************************************************)
\* Drafts an earlier run of depth d saved for the indices below n.
LeftBy(d, n) ==
    [f \in DOMAIN OtherFiles \cup {cache_path(CacheDir, <<"p">>, d, i) : i \in 0..(n - 1)} |->
        IF f \in DOMAIN OtherFiles THEN OtherFiles[f]
        ELSE <<"Z", CallTag[(CHOOSE i \in 0..(n - 1) : f = cache_path(CacheDir, <<"p">>, d, i)) + 1]>>]

LeftDirs == {LeftBy(d, n) : d \in {2, 4}, n \in 0..2}

Loggers == {<<"print">>}

InitLogger ==
    /\ InitLocals
    /\ cache \in LeftDirs
    /\ cache0 = cache
    /\ probe = [fn |-> "none"]

CallAgainWithLogger ==
    /\ pc \in {"done", "failed"}
    /\ first = <<>>
    /\ \E lg \in Loggers : EnterRun(depth, cache_key_prefix, continue_mode, lg, cache0)
    /\ first' = Some([result |-> result,
                      error |-> error,
                      genLog |-> genLog,
                      hitLog |-> hitLog,
                      refLog |-> refLog,
                      winner_labels |-> winner_labels,
                      polishLog |-> polishLog,
                      polished |-> polished,
                      qcLog |-> qcLog,
                      issue |-> issue,
                      cacheReads |-> cacheReads,
                      cacheWrites |-> cacheWrites,
                      cache |-> cache])
    /\ UNCHANGED probe

\* generate_draft_fn in the call without a logger.
GenerateFirst ==
    /\ first = <<>>
    /\ GenerateDraft

\* generate_draft_fn in the call with a logger: the same texts in the same
\* order, as far as the first call asked for them.
GenerateAgain ==
    /\ first # <<>>
    /\ pc = "generate"
    /\ Len(drafts) < draft_count
    /\ ~IsCacheHit
    /\ IF Len(genLog) < Len(first[1].genLog)
       THEN GenerateStep(first[1].genLog[Len(genLog) + 1])
       ELSE \E draft \in GenerateReturns(run, Len(genLog) + 1) : GenerateStep(draft)

NextLogger ==
    \/ FirstRun
    \/ CallAgainWithLogger
    \/ LoadCachedHit
    \/ GenerateFirst
    \/ GenerateAgain
    \/ ReturnSingleDraft
    \/ BeginReferee
    \/ \E raw_result \in RefereeReturns : RefereeBracket(raw_result)
    \/ EndReferee
    \/ SkipReferee
    \/ \E text \in PolishReturns : PolishPass(text)
    \/ \E verdict \in QualityReturns : QualityCheck(verdict)

SpecLogger == InitLogger /\ [][NextLogger]_vars

(***************************************************************************)
(* The functions of the library applied on their own: `probe` holds the    *)
(* function called, its arguments and, once the call is over, what it      *)
(* returned.                                                               *)
(***************************************************************************)
MaxTextLen == 3

\* All texts of at most n symbols over an alphabet.
TextsOver(alphabet, n) == UNION {[1..k -> alphabet] : k \in 0..n}

Call(fn, args) == [fn |-> fn, in |-> args, done |-> FALSE, out |-> <<>>]

Return(v) ==
    /\ probe' = [probe EXCEPT !.done = TRUE, !.out = v]
    /\ UNCHANGED <<pc, run, depth, cache_key_prefix, continue_mode, cache, cache0,
                   draft_count, drafts, brackets, winner_labels, winners,
                   drafts_for_polish, best_unpolished, polished, issue, result, error,
                   genLog, hitLog, refLog, polishLog, qcLog, cacheReads, cacheWrites,
                   thrown, first, logger, logged>>

Pending(fn) == probe.fn = fn /\ ~probe.done
Returned_from(fn) == probe.fn = fn /\ probe.done

\* Draft texts with line ends of every kind.
DraftTexts == TextsOver({"a", "\n", "\r"}, MaxTextLen)

\* _save_draft_cache(path, text) followed by _load_cached_draft(path).
SaveThenLoad ==
    /\ Pending("save_load")
    /\ LET path == cache_path(CacheDir, <<"p">>, 1, 0)
       IN  Return(load_cached_draft(save_draft_cache(OtherFiles, path, probe.in), path))

(***************************************************************************)
(* outline_draft_cache.compute_run_fingerprint.  A value is a JSON scalar  *)
(* <<"s", token>>, None <<"n">>, or a dict <<"d", items>> whose items are  *)
(* <<key, value>> pairs in insertion order.                                *)
(***************************************************************************)
Scalar(token) == <<"s", token>>
Dict(items) == <<"d", items>>
IsDict(v) == v[1] = "d"

DictKeys(d) == {d[2][i][1] : i \in 1..Len(d[2])}

\* dict.get(key, default)
DictGet(d, key, default) ==
    IF key \in DictKeys(d)
    THEN d[2][CHOOSE i \in 1..Len(d[2]) : d[2][i][1] = key][2]
    ELSE default

\* `extra or {}`: None and the empty dict both give {}.
OrEmptyDict(v) == IF IsDict(v) /\ Len(v[2]) > 0 THEN v ELSE Dict(<<>>)

\* The keys of the model in the order of Python's string comparison.
KeyOrder ==
    <<"commits", "extra", "issues", "model_override", "stage_name", "target_value",
      "totals", "transport_name", "user", "window_end", "window_start">>
KeyRank(key) == CHOOSE i \in 1..Len(KeyOrder) : KeyOrder[i] = key

RemoveAt(items, m) == [i \in 1..(Len(items) - 1) |-> IF i < m THEN items[i] ELSE items[i + 1]]

\* sorted(dict.items()) as json.dumps(sort_keys=True) does it.
RECURSIVE SortItems(_)
SortItems(items) ==
    IF Len(items) = 0 THEN <<>>
    ELSE LET m == CHOOSE i \in 1..Len(items) :
                      \A j \in 1..Len(items) : KeyRank(items[i][1]) <= KeyRank(items[j][1])
         IN  <<items[m]>> \o SortItems(RemoveAt(items, m))

\* json.dumps(value, sort_keys=...) as a token sequence.
RECURSIVE json_dumps(_, _)
RECURSIVE EncodeItems(_, _)
json_dumps(v, sort_keys) ==
    IF IsDict(v)
    THEN <<"{">> \o EncodeItems(IF sort_keys THEN SortItems(v[2]) ELSE v[2], sort_keys) \o <<"}">>
    ELSE <<v[2]>>
EncodeItems(items, sort_keys) ==
    IF Len(items) = 0 THEN <<>>
    ELSE <<items[1][1], ":">> \o json_dumps(items[1][2], sort_keys)
         \o (IF Len(items) > 1 THEN <<",">> \o EncodeItems(Tail(items), sort_keys) ELSE <<>>)

\* hashlib.sha256(encoded).hexdigest()[:16], taken to be collision-free: the
\* digest is told apart by the encoded text and nothing else.
Sha256Hex16(encoded) == <<"sha256">> \o encoded

\* Variant: the payload is encoded in insertion order.
compute_run_fingerprint_unsorted(outline, stage_name, target_value, extra) ==
    Sha256Hex16(json_dumps(Dict(<<
        <<"stage_name", stage_name>>,
        <<"user", DictGet(outline, "user", Scalar("\"\""))>>,
        <<"window_start", DictGet(outline, "window_start", Scalar("\"\""))>>,
        <<"window_end", DictGet(outline, "window_end", Scalar("\"\""))>>,
        <<"target_value", target_value>>,
        <<"totals", DictGet(outline, "totals", Dict(<<>>))>>,
        <<"extra", OrEmptyDict(extra)>> >>), FALSE))

compute_run_fingerprint(outline, stage_name, target_value, extra) ==
    Sha256Hex16(json_dumps(Dict(<<
        <<"stage_name", stage_name>>,
        <<"user", DictGet(outline, "user", Scalar("\"\""))>>,
        <<"window_start", DictGet(outline, "window_start", Scalar("\"\""))>>,
        <<"window_end", DictGet(outline, "window_end", Scalar("\"\""))>>,
        <<"target_value", target_value>>,
        <<"totals", DictGet(outline, "totals", Dict(<<>>))>>,
        <<"extra", OrEmptyDict(extra)>> >>), TRUE))

\* Contexts: outlines with and without a user, in two key orders, with
\* totals and extra maps in two key orders.
Reverse(items) == [i \in 1..Len(items) |-> items[Len(items) + 1 - i]]

TotalsInputs ==
    {Dict(<< <<"commits", Scalar("1")>>, <<"issues", Scalar("2")>> >>),
     Dict(<< <<"issues", Scalar("2")>>, <<"commits", Scalar("1")>> >>),
     Dict(<< <<"commits", Scalar("2")>>, <<"issues", Scalar("2")>> >>)}

ExtraInputs ==
    {None,
     Dict(<<>>),
     Dict(<< <<"transport_name", Scalar("\"api\"")>>, <<"model_override", Scalar("\"m\"")>> >>),
     Dict(<< <<"model_override", Scalar("\"m\"")>>, <<"transport_name", Scalar("\"api\"")>> >>),
     Dict(<< <<"transport_name", Scalar("\"local\"")>>, <<"model_override", Scalar("\"m\"")>> >>)}

OutlineOf(user, window_start, window_end, totals, reversed) ==
    LET items == (IF user = None THEN <<>> ELSE << <<"user", user>> >>)
                 \o << <<"window_start", window_start>>,
                       <<"window_end", window_end>>,
                       <<"totals", totals>> >>
    IN  Dict(IF reversed THEN Reverse(items) ELSE items)

ContextInputs(stages, users, starts, ends, targets, totals_set, extras) ==
    [outline : {OutlineOf(user, window_start, window_end, totals, reversed) :
                    user \in users, window_start \in starts, window_end \in ends,
                    totals \in totals_set, reversed \in BOOLEAN},
     stage_name : stages,
     target_value : targets,
     extra : extras]

\* The contexts a given one is compared with.
AllContexts ==
    ContextInputs({Scalar("\"blog\""), Scalar("\"pod\"")},
                  {None, Scalar("\"\""), Scalar("\"u\"")},
                  {Scalar("\"d1\""), Scalar("\"d2\"")},
                  {Scalar("\"d3\""), Scalar("\"d4\"")},
                  {Scalar("500"), Scalar("600")},
                  TotalsInputs, ExtraInputs)

SomeContexts ==
    ContextInputs({Scalar("\"blog\"")}, {None}, {Scalar("\"d1\"")}, {Scalar("\"d3\"")},
                  {Scalar("500")},
                  {Dict(<< <<"commits", Scalar("1")>>, <<"issues", Scalar("2")>> >>)},
                  {None,
                   Dict(<< <<"transport_name", Scalar("\"api\"")>>,
                           <<"model_override", Scalar("\"m\"")>> >>)})

Fingerprint(c) == compute_run_fingerprint(c.outline, c.stage_name, c.target_value, c.extra)

\* compute_run_fingerprint called for two contexts.
FingerprintBoth ==
    /\ Pending("fingerprint")
    /\ Return(<<Fingerprint(probe.in[1]), Fingerprint(probe.in[2])>>)

(***************************************************************************)
(* outline_draft_cache.repo_slug and build_cache_path.  A name is a        *)
(* sequence of characters.                                                 *)
(***************************************************************************)
LowerLetters ==
    {"a", "b", "c", "d", "e", "f", "g", "h", "i", "j", "k", "l", "m",
     "n", "o", "p", "q", "r", "s", "t", "u", "v", "w", "x", "y", "z"}

\* The characters REPO_SLUG_RE leaves alone: [a-z0-9._-].
SlugChars == LowerLetters \cup {Digits[i] : i \in 1..Len(Digits)} \cup {".", "_", "-"}

\* str.replace("/", "__")
RECURSIVE ReplaceSlash(_)
ReplaceSlash(t) ==
    IF t = <<>> THEN <<>>
    ELSE (IF Head(t) = "/" THEN <<"_", "_">> ELSE <<Head(t)>>) \o ReplaceSlash(Tail(t))

\* REPO_SLUG_RE.sub("-", text): every maximal run of other characters
\* becomes one "-".
RECURSIVE SubRuns(_)
SubRuns(t) ==
    IF t = <<>> THEN <<>>
    ELSE IF Head(t) \in SlugChars THEN <<Head(t)>> \o SubRuns(Tail(t))
    ELSE IF Len(t) >= 2 /\ t[2] \notin SlugChars THEN SubRuns(Tail(t))
    ELSE <<"-">> \o SubRuns(Tail(t))

\* str.strip("-")
RECURSIVE StripDashes(_)
StripDashes(t) ==
    IF t = <<>> THEN <<>>
    ELSE IF Head(t) = "-" THEN StripDashes(Tail(t))
    ELSE IF t[Len(t)] = "-" THEN StripDashes(SubSeq(t, 1, Len(t) - 1))
    ELSE t

UnknownRepo == <<"u", "n", "k", "n", "o", "w", "n", "_", "r", "e", "p", "o">>

\* Variant: an empty slug is returned as it is.
repo_slug_without_default(repo_full_name) ==
    StripDashes(SubRuns(ReplaceSlash(Lower(Strip(repo_full_name)))))

repo_slug(repo_full_name) ==
    LET text == StripDashes(SubRuns(ReplaceSlash(Lower(Strip(repo_full_name)))))
    IN  IF text = <<>> THEN UnknownRepo ELSE text

\* Item identifiers: upper and lower case, separators, blanks, punctuation,
\* a letter outside ASCII.
RepoNames == TextsOver({"a", "B", "/", "\\", " ", "-", ".", "!", "U+00E9"}, MaxTextLen)

RepoSlug ==
    /\ Pending("repo_slug")
    /\ Return(repo_slug(probe.in))

\* f"{repo_slug(repo_full_name)}_{run_fingerprint}.json" under cache_dir.
build_cache_path(cache_dir, repo_full_name, run_fingerprint) ==
    PathJoin(cache_dir, repo_slug(repo_full_name) \o <<"_">> \o run_fingerprint \o <<".json">>)

\* Two digests, each 16 hex digits taken as one symbol.
RunFingerprints == {<<"0f0f0f0f0f0f0f0f">>, <<"a1a1a1a1a1a1a1a1">>}

\* The items a given one is compared with.
SomeRepoNames == {<<"B", "/", "a">>, <<>>}

\* build_cache_path called for two (item, fingerprint) pairs.
BuildCachePaths ==
    /\ Pending("build_cache_path")
    /\ Return(<<build_cache_path(CacheDir, probe.in[1][1], probe.in[1][2]),
                build_cache_path(CacheDir, probe.in[2][1], probe.in[2][2])>>)

MaxRawLen == 4

\* Referee outputs: every text of up to MaxRawLen symbols, and texts with
\* two markers.
RawTexts ==
    TextsOver({"<winner>", "</WINNER>", "a", "B", " ", "\n"}, MaxRawLen)
    \cup {<<"<winner>", x, "</winner>", "<WINNER>", y, "</WINNER>">> :
              x \in {"a", "B", " ", "\n"}, y \in {"a", "B", " ", "\n"}}

LabelPairs == {<<<<"A">>, <<"B">>>>, <<<<"B">>, <<"A">>>>, <<<<"a">>, <<"A">>>>}

\* parse_referee_winner(raw, label_a, label_b)
ParseRefereeWinner ==
    /\ Pending("parse_referee_winner")
    /\ Return(parse_referee_winner(probe.in[1], probe.in[2], probe.in[3]))

MaxDrafts == 5

\* Draft lists of every length up to MaxDrafts.
DraftLists == TextsOver({<<"x">>, <<"y">>}, MaxDrafts)

\* build_referee_brackets(drafts)
BuildRefereeBrackets ==
    /\ Pending("build_referee_brackets")
    /\ Return(build_referee_brackets(probe.in))

(***************************************************************************)
(* chunk_text(text, chunk_size, overlap), one step per loop iteration.     *)
(* chunk_size and overlap are the integers of --chunk-size and             *)
(* --chunk-overlap (type=int, nothing checks their sign or order).         *)
(***************************************************************************)
MaxChunkText == 5
MaxChunkArg == 4

ChunkTexts ==
    {SubSeq(<<"a", "b", "c", "d", "e", "f", "g", "h">>, 1, n) : n \in 0..MaxChunkText}

ChunkArgs == (-1)..MaxChunkArg

\* A call that returns appends at most len(text) + 1 chunks.  The list is
\* kept up to MaxChunks entries, which no returning call reaches.
MaxChunks == MaxChunkText + MaxChunkArg + 2

\* A slice index as Python reads it: negative counts from the end, and the
\* result is clipped to 0..len.
SliceIndex(i, n) ==
    IF i < 0 THEN (IF i + n < 0 THEN 0 ELSE i + n)
    ELSE IF i > n THEN n ELSE i

\* text[lo:hi]
PySlice(text, lo, hi) ==
    SubSeq(text, SliceIndex(lo, Len(text)) + 1, SliceIndex(hi, Len(text)))

ChunkCall(text, chunk_size, overlap) ==
    [fn |-> "chunk_text", in |-> <<text, chunk_size, overlap>>,
     done |-> FALSE, out |-> <<>>,
     at |-> "enter", start |-> 0, chunks |-> <<>>, starts |-> <<>>]

InitChunk ==
    /\ InitRun
    /\ \E text \in ChunkTexts, chunk_size \in ChunkArgs, overlap \in ChunkArgs :
           probe = ChunkCall(text, chunk_size, overlap)

OnlyProbeChanges ==
    UNCHANGED <<pc, run, depth, cache_key_prefix, continue_mode, cache, cache0,
                draft_count, drafts, brackets, winner_labels, winners,
                drafts_for_polish, best_unpolished, polished, issue, result, error,
                genLog, hitLog, refLog, polishLog, qcLog, cacheReads, cacheWrites,
                thrown, first, logger, logged>>

\* Lines 28-35: the two early returns, else the loop is entered.
ChunkEnter ==
    /\ probe.fn = "chunk_text" /\ probe.at = "enter"
    /\ LET text == probe.in[1]
           chunk_size == probe.in[2]
       IN  probe' =
             IF text = <<>>
             THEN [probe EXCEPT !.at = "returned", !.done = TRUE, !.out = <<>>]
             ELSE IF Len(text) <= chunk_size
             THEN [probe EXCEPT !.at = "returned", !.done = TRUE, !.out = <<text>>]
             ELSE [probe EXCEPT !.at = "while"]
    /\ OnlyProbeChanges

\* Line 36: the loop condition holds and the body is entered.
ChunkTest ==
    /\ probe.fn = "chunk_text" /\ probe.at = "while"
    /\ probe.start < Len(probe.in[1])
    /\ probe' = [probe EXCEPT !.at = "body"]
    /\ OnlyProbeChanges

\* Lines 37-43: the loop body; the break leaves the loop and returns.  Once
\* the list is full a start that only falls is kept where it is: it is below
\* -MaxChunks, where lines 36 and 41 no longer depend on its value.
ChunkIterate ==
    /\ probe.fn = "chunk_text" /\ probe.at = "body"
    /\ LET text == probe.in[1]
           chunk_size == probe.in[2]
           overlap == probe.in[3]
           step == chunk_size - overlap
           end == probe.start + chunk_size
           full == Len(probe.chunks) = MaxChunks
           chunks == IF full THEN probe.chunks
                     ELSE Append(probe.chunks, PySlice(text, probe.start, end))
           starts == IF full THEN probe.starts ELSE Append(probe.starts, probe.start)
           start == IF full /\ step < 0 THEN probe.start ELSE probe.start + step
       IN  probe' =
             IF start < Len(text) /\ (Len(text) - start) <= overlap
             THEN [probe EXCEPT !.at = "returned", !.done = TRUE, !.start = start,
                                !.out = Append(chunks, PySlice(text, start, Len(text))),
                                !.chunks = Append(chunks, PySlice(text, start, Len(text))),
                                !.starts = Append(starts, start)]
             ELSE [probe EXCEPT !.at = "while", !.start = start,
                                !.chunks = chunks, !.starts = starts]
    /\ OnlyProbeChanges

\* Lines 36 and 44: the loop condition fails and the chunks are returned.
ChunkExit ==
    /\ probe.fn = "chunk_text" /\ probe.at = "while"
    /\ ~(probe.start < Len(probe.in[1]))
    /\ probe' = [probe EXCEPT !.at = "returned", !.done = TRUE, !.out = probe.chunks]
    /\ OnlyProbeChanges

NextChunk ==
    \/ ChunkEnter
    \/ ChunkTest
    \/ ChunkIterate
    \/ ChunkExit

SpecChunk == InitChunk /\ [][NextChunk]_vars

\* The interpreter keeps running the call: a step that can be taken is taken.
SpecChunkRuns == SpecChunk /\ WF_vars(NextChunk)

(***************************************************************************)
(* A referee bracket in a calling stage: _referee_bluesky and              *)
(* _referee_changelog (the podcast and outline wrappers read the same),    *)
(* then lines 250-259 of run_depth_pipeline on what the wrapper returns.   *)
(***************************************************************************)
\* random.choice(labels)
LabelChoices == {<<<<"A">>, <<"B">>>>, <<<<"B">>, <<"A">>>>}

\* The label and draft pairs put into the prompt; the drafts are exchanged
\* when the first label is "B".
referee_prompt(labels, draft_a, draft_b) ==
    IF labels[1] = <<"B">>
    THEN [label_a |-> labels[1], label_b |-> labels[2], draft_a |-> draft_b, draft_b |-> draft_a]
    ELSE [label_a |-> labels[1], label_b |-> labels[2], draft_a |-> draft_a, draft_b |-> draft_b]

\* client.generate is opaque: the backend names one of the two labels of the
\* prompt in a winner marker, with space around its answer.
BackendNamed(prompt, pick) ==
    IF pick = 1 THEN [label |-> prompt.label_a, draft |-> prompt.draft_a]
                ELSE [label |-> prompt.label_b, draft |-> prompt.draft_b]

BackendGenerate(prompt, pick) ==
    <<" ", "<winner>">> \o BackendNamed(prompt, pick).label \o <<"</winner>", "\n">>

\* _referee_bluesky / _referee_changelog: the backend's text, stripped.
referee_stage(labels, draft_a, draft_b, pick) ==
    Strip(BackendGenerate(referee_prompt(labels, draft_a, draft_b), pick))

\* Lines 250-259 for bracket bracket_idx given the raw verdict.
bracket_survivor(bracket_idx, draft_a, draft_b, raw_result) ==
    LET label_a == DraftLabel(bracket_idx * 2 + 1)
        label_b == DraftLabel(bracket_idx * 2 + 2)
    IN  PickWinner(parse_referee_winner(raw_result, label_a, label_b),
                   label_a, draft_a, draft_b)

\* One bracket of a stage: in = <<labels, pick, bracket_idx, draft_a, draft_b>>.
StageBracket ==
    /\ Pending("stage_bracket")
    /\ LET labels == probe.in[1]
           pick == probe.in[2]
           bracket_idx == probe.in[3]
           draft_a == probe.in[4]
           draft_b == probe.in[5]
           raw_result == referee_stage(labels, draft_a, draft_b, pick)
       IN  Return([raw |-> raw_result,
                   named |-> BackendNamed(referee_prompt(labels, draft_a, draft_b), pick).draft,
                   survivor |-> bracket_survivor(bracket_idx, draft_a, draft_b, raw_result)])

InitPure ==
    /\ InitRun
    /\ \/ \E t \in DraftTexts : probe = Call("save_load", t)
       \/ \E c1 \in SomeContexts, c2 \in AllContexts : probe = Call("fingerprint", <<c1, c2>>)
       \/ \E name \in RepoNames : probe = Call("repo_slug", name)
       \/ \E name1 \in SomeRepoNames, name2 \in RepoNames, fp \in RunFingerprints :
             probe = Call("build_cache_path",
                          <<<<name1, <<"0f0f0f0f0f0f0f0f">>>>, <<name2, fp>>>>)
       \/ \E raw \in RawTexts, labels \in LabelPairs :
             probe = Call("parse_referee_winner", <<raw, labels[1], labels[2]>>)
       \/ \E raw \in RefereeReturns :
             probe = Call("parse_referee_winner", <<raw, DraftLabel(1), DraftLabel(2)>>)
       \/ \E ds \in DraftLists : probe = Call("build_referee_brackets", ds)
       \/ \E labels \in LabelChoices, pick \in {1, 2}, bracket_idx \in {0, 1} :
             probe = Call("stage_bracket", <<labels, pick, bracket_idx, <<"x">>, <<"y">>>>)

NextPure ==
    \/ SaveThenLoad
    \/ FingerprintBoth
    \/ RepoSlug
    \/ BuildCachePaths
    \/ ParseRefereeWinner
    \/ BuildRefereeBrackets
    \/ StageBracket

SpecPure == InitPure /\ [][NextPure]_vars

(***************************************************************************)
(* The DraftSet of a run, told from the run's inputs and the generate      *)
(* calls alone.                                                            *)
(***************************************************************************)
Started == run > 0
Completed == pc = "done"

\* The cache path of index i (zero-based) for the arguments of this run.
PathOf(i) == cache_path(CacheDir, cache_key_prefix, depth, i)

\* Index i was served from the cache as the run found it.
HitAtStart(i) == continue_mode /\ load_cached_draft(cache0, PathOf(i)) # EmptyText

MissesBefore(i) == Cardinality({j \in 0..(i - 1) : ~HitAtStart(j)})

\* The draft index i must hold: the cached text on a hit, else the text of
\* the generate call made for it.
ExpectedDraft(i) ==
    IF HitAtStart(i) THEN load_cached_draft(cache0, PathOf(i))
    ELSE genLog[MissesBefore(i) + 1]

\* Helper: once the loop is over, drafts is the DraftSet in index order.
DraftSetInOrder ==
    (Started /\ pc \notin {"generate", "failed"}) =>
        /\ Len(drafts) = depth
        /\ \A i \in 0..(depth - 1) : drafts[i + 1] = ExpectedDraft(i)

(***************************************************************************)
(* C1. A depth outside {1,2,3,4} makes the run fail with the invalid-depth *)
(* error before any effect: generate, referee, polish and the quality      *)
(* check are not invoked, no cache entry is read or written, and no text   *)
(* is returned.                                                            *)
(***************************************************************************)
InvalidDepthFailsFast ==
    (Started /\ depth \notin {1, 2, 3, 4}) =>
        /\ pc = "failed"
        /\ error = "ValueError"
        /\ genLog = <<>>
        /\ refLog = <<>>
        /\ polishLog = <<>>
        /\ qcLog = <<>>
        /\ cacheReads = <<>>
        /\ cacheWrites = <<>>
        /\ cache = cache0
        /\ result = <<>>

\* A second run rejected for depth 5 over a cache the first run filled.
InvalidDepthWitness ==
    /\ pc = "failed"
    /\ depth = 5
    /\ run = 2
    /\ continue_mode
    /\ \E i \in 0..3 : cache_path(CacheDir, cache_key_prefix, 4, i) \in DOMAIN cache

(***************************************************************************)
(* C2. For the depth of every accepted run: compute_draft_count(depth) is  *)
(* depth, needs_referee(depth) is true exactly when depth = 4, and         *)
(* needs_polish(depth) is true exactly when depth >= 2.                    *)
(***************************************************************************)
DepthPolicy ==
    (Started /\ depth \in {1, 2, 3, 4}) =>
        /\ compute_draft_count(depth) = Returned(depth)
        /\ draft_count = depth
        /\ needs_referee(depth) = Returned(depth = 4)
        /\ needs_polish(depth) = Returned(depth >= 2)

DepthPolicyWitness ==
    /\ Completed
    /\ depth = 2
    /\ draft_count = 2
    /\ needs_polish(depth) = Returned(TRUE)
    /\ needs_referee(depth) = Returned(FALSE)

(***************************************************************************)
(* C3. At depth 1 with no cache hit, the run invokes generate exactly      *)
(* once, never invokes referee, polish or the quality check, and returns   *)
(* the text of that one draft unmodified.                                  *)
(***************************************************************************)
DepthOneReturnsDraft ==
    (Started /\ depth = 1 /\ ~HitAtStart(0)) =>
        /\ Len(genLog) <= 1
        /\ refLog = <<>>
        /\ polishLog = <<>>
        /\ qcLog = <<>>
        /\ Completed => (Len(genLog) = 1 /\ result = Some(genLog[1]))

\* A continue-mode run at depth 1 that misses and returns the empty draft.
DepthOneWitness ==
    /\ Completed
    /\ depth = 1
    /\ continue_mode
    /\ ~HitAtStart(0)
    /\ Len(genLog) = 1
    /\ result = Some(EmptyText)

(***************************************************************************)
(* C4. In every completed run at depth d the number of generate calls is   *)
(* d minus the number of cache hits, an index being a hit exactly when     *)
(* continue mode is on and a draft was persisted under its key before the  *)
(* run; a hit contributes the persisted text, a miss the generated text,   *)
(* and the DraftSet is in index order.                                     *)
(***************************************************************************)
\* A draft was persisted under the key of index i before the run.
PersistedAtStart(i) == continue_mode /\ PathOf(i) \in DOMAIN cache0

PersistedMissesBefore(i) == Cardinality({j \in 0..(i - 1) : ~PersistedAtStart(j)})

GenerateCountIsDepthMinusPersisted ==
    Completed =>
        /\ Len(genLog) = depth - Cardinality({i \in 0..(depth - 1) : PersistedAtStart(i)})
        /\ Len(drafts) = depth
        /\ \A i \in 0..(depth - 1) :
              /\ PersistedAtStart(i) => drafts[i + 1] = cache0[PathOf(i)]
              /\ (~PersistedAtStart(i) /\ PersistedMissesBefore(i) < Len(genLog)) =>
                     drafts[i + 1] = genLog[PersistedMissesBefore(i) + 1]

(***************************************************************************)
(* C5. The referee is invoked zero times at depths 1, 2 and 3 and exactly  *)
(* twice at depth 4: first with (DraftSet[0], DraftSet[1]), then with      *)
(* (DraftSet[2], DraftSet[3]).                                             *)
(***************************************************************************)
RefereeCalls ==
    Started =>
        /\ depth \in {1, 2, 3} => refLog = <<>>
        /\ Len(refLog) <= 2
        /\ \A k \in 1..Len(refLog) :
              refLog[k] = <<ExpectedDraft(2 * (k - 1)), ExpectedDraft(2 * (k - 1) + 1)>>
        /\ (Completed /\ depth = 4) => Len(refLog) = 2

\* A completed depth-4 run whose four drafts are all different.
RefereeCallsWitness ==
    /\ Completed
    /\ depth = 4
    /\ Len(refLog) = 2
    /\ Cardinality({drafts[k] : k \in 1..4}) = 4

(***************************************************************************)
(* C6. Polish is invoked exactly once in every completed run with          *)
(* depth >= 2 and never at depth 1, and its second argument is the depth.  *)
(***************************************************************************)
PolishOnce ==
    Started =>
        /\ depth = 1 => polishLog = <<>>
        /\ Len(polishLog) <= 1
        /\ \A k \in 1..Len(polishLog) : polishLog[k][2] = depth
        /\ (Completed /\ depth >= 2) => Len(polishLog) = 1

PolishOnceWitness ==
    /\ Completed
    /\ depth = 4
    /\ Len(polishLog) = 1
    /\ polishLog[1][2] = 4

(***************************************************************************)
(* C7. In every completed run with depth >= 2 the quality check is invoked *)
(* exactly once, on the text polish returned; it is never invoked on a raw *)
(* draft or a bracket winner, and never at depth 1.                        *)
(***************************************************************************)
QualityCheckOnce ==
    Started =>
        /\ depth = 1 => qcLog = <<>>
        /\ Len(qcLog) <= 1
        /\ \A k \in 1..Len(qcLog) : Len(polishLog) = 1 /\ Some(qcLog[k]) = polished
        /\ (Completed /\ depth >= 2) => Len(qcLog) = 1

\* The checked text is the merged text and differs from every draft.
QualityCheckWitness ==
    /\ Completed
    /\ depth = 4
    /\ qcLog = <<(<<"m">>)>>
    /\ \A k \in 1..4 : drafts[k] # <<"m">>

(***************************************************************************)
(* C8. At depth 2 and 3 the draft list given to polish is the full         *)
(* DraftSet in index order: nothing dropped, duplicated or reordered.      *)
(***************************************************************************)
PolishGetsFullDraftSet ==
    (Started /\ depth \in {2, 3}) =>
        \A k \in 1..Len(polishLog) :
            polishLog[k][1] = [i \in 1..depth |-> ExpectedDraft(i - 1)]

\* Depth 3 with a cached first draft and two different generated drafts.
PolishGetsFullDraftSetWitness ==
    /\ Completed
    /\ depth = 3
    /\ HitAtStart(0)
    /\ Len(genLog) = 2
    /\ Len(polishLog) = 1
    /\ Cardinality({polishLog[1][1][k] : k \in 1..3}) = 3

(***************************************************************************)
(* C9. At depth 4 the draft list given to polish is [w0, w1] in bracket    *)
(* order, where wk is DraftSet[2k] if the verdict of bracket k parsed to   *)
(* the label "Draft 2k+1" and DraftSet[2k+1] otherwise.                    *)
(***************************************************************************)
PolishGetsBracketWinners ==
    (Started /\ depth = 4) =>
        \A c \in 1..Len(polishLog) :
            /\ Len(polishLog[c][1]) = 2
            /\ Len(winner_labels) = 2
            /\ \A k \in 0..1 :
                  polishLog[c][1][k + 1] =
                      IF winner_labels[k + 1] = DraftLabel(2 * k + 1)
                      THEN ExpectedDraft(2 * k)
                      ELSE ExpectedDraft(2 * k + 1)

\* The first bracket is won by its first draft, the second by its second.
PolishGetsBracketWinnersWitness ==
    /\ Completed
    /\ depth = 4
    /\ Cardinality({drafts[k] : k \in 1..4}) = 4
    /\ winner_labels = <<DraftLabel(1), DraftLabel(4)>>
    /\ polishLog[1][1] = <<drafts[1], drafts[4]>>

(***************************************************************************)
(* C10. For every run with depth >= 2: when the quality check returns the  *)
(* empty string the run returns the polish output; when it returns an      *)
(* issue the run returns the fallback candidate, DraftSet[0] at depth 2    *)
(* and 3 and the first bracket's surviving draft at depth 4.               *)
(***************************************************************************)
FallbackCandidate ==
    IF depth = 4
    THEN IF winner_labels[1] = DraftLabel(1) THEN ExpectedDraft(0) ELSE ExpectedDraft(1)
    ELSE ExpectedDraft(0)

QualityGateResult ==
    (Started /\ depth >= 2 /\ pc # "failed") =>
        /\ result # <<>> <=> Completed
        /\ Completed =>
              /\ issue = Some(EmptyText) => result = polished
              /\ issue # Some(EmptyText) => result = Some(FallbackCandidate)

\* Depth 4, the gate rejects, and the second draft of bracket 0 is returned.
QualityGateResultWitness ==
    /\ Completed
    /\ depth = 4
    /\ issue = Some(<<"bad">>)
    /\ drafts[1] # drafts[2]
    /\ result = Some(drafts[2])
    /\ polished = Some(<<"m">>)

\* The quality check returned a non-empty issue for the polished result.
Rejected == Completed /\ depth >= 2 /\ issue # <<>> /\ issue # Some(EmptyText)

(***************************************************************************)
(* C11. Whenever the quality check rejects the polished result, the text   *)
(* the run returns is non-empty, whatever generate returned.               *)
(***************************************************************************)
RejectedRunReturnsNonEmpty ==
    Rejected => (result # <<>> /\ result # Some(EmptyText))

\* The referee calls of the run before and of this run, as
\* <<bracket index, arguments, winning label>>.
RefereeCallsOf(log, labels) == {<<i, log[i], labels[i]>> : i \in 1..Len(log)}
BothRefereeCalls ==
    RefereeCallsOf(first[1].refLog, first[1].winner_labels)
        \cup RefereeCallsOf(refLog, winner_labels)

\* Some referee, polish and quality-check functions of their arguments
\* answer the calls of both runs.
DeterministicCapabilities ==
    /\ \A c \in BothRefereeCalls :
          \E raw \in RefereeReturns :
              \A e \in BothRefereeCalls :
                  e[2] = c[2] =>
                      parse_referee_winner(raw, DraftLabel(2 * e[1] - 1),
                                           DraftLabel(2 * e[1])) = e[3]
    /\ polishLog = first[1].polishLog => polished = first[1].polished
    /\ qcLog = first[1].qcLog => issue = first[1].issue

(***************************************************************************)
(* C12. A continue-mode run after a completed run with the same cache_dir, *)
(* prefix and depth, over the cache as that run left it, calls generate    *)
(* zero times and, with deterministic referee, polish and quality-check    *)
(* capabilities, returns the text the run before returned.                 *)
(***************************************************************************)
ContinueModeIdempotence ==
    (Completed /\ first # <<>> /\ DeterministicCapabilities) =>
        (genLog = <<>> /\ result = first[1].result)

\* The paths of the current run's entries.
RunPaths == {PathOf(i) : i \in 0..(draft_count - 1)}

(***************************************************************************)
(* C13. With continue_mode off, a run at depth d calls generate exactly d  *)
(* times whatever the cache holds, and on completion entry i of the run    *)
(* holds the i-th generated draft for every i in [0, d).  At every point   *)
(* of the run no entry has been deleted and every entry with another       *)
(* prefix, depth, or an index >= d is as the run found it.                 *)
(***************************************************************************)
FreshRunOverwrites ==
    (Started /\ ~continue_mode) =>
        /\ hitLog = <<>>
        /\ cacheReads = <<>>
        /\ DOMAIN cache0 \subseteq DOMAIN cache
        /\ \A f \in (DOMAIN cache) \ RunPaths : f \in DOMAIN cache0 /\ cache[f] = cache0[f]
        /\ Completed =>
              /\ Len(genLog) = depth
              /\ \A i \in 0..(depth - 1) :
                    /\ PathOf(i) \in DOMAIN cache
                    /\ cache[PathOf(i)] = genLog[i + 1]

\* A second depth-1 run that overwrote the first run's entry, next to files
\* of another prefix and of index 1.
FreshRunOverwritesWitness ==
    /\ Completed
    /\ ~continue_mode
    /\ depth = 1
    /\ PathOf(0) \in DOMAIN cache0
    /\ cache0[PathOf(0)] # EmptyText
    /\ cache[PathOf(0)] # cache0[PathOf(0)]
    /\ cache[PathOf(0)] = genLog[1]
    /\ PathOf(1) \in DOMAIN cache
    /\ OtherFile \in DOMAIN cache

(***************************************************************************)
(* C14. When generate, referee or polish raises in a run with a valid      *)
(* depth, the run ends with that very error and returns no text, and no    *)
(* capability is called after the failing call: the phases behind it have  *)
(* empty call logs and the failing generate call saved nothing.            *)
(***************************************************************************)
CapabilityErrorPropagates ==
    (thrown # "none") =>
        /\ validate_depth(depth) = Returned("None")
        /\ pc = "failed"
        /\ error = thrown
        /\ result = <<>>
        /\ issue = <<>>
        /\ thrown = "GenerateError" =>
              /\ Len(drafts) < draft_count
              /\ Len(cacheWrites) = Len(genLog)
              /\ refLog = <<>> /\ polishLog = <<>> /\ qcLog = <<>>
        /\ thrown = "RefereeError" =>
              /\ Len(refLog) = Len(winners) + 1
              /\ polishLog = <<>> /\ qcLog = <<>>
        /\ thrown = "PolishError" =>
              /\ Len(polishLog) = 1
              /\ polished = <<>> /\ qcLog = <<>>

\* Polish raised at depth 4 after both brackets were judged.
CapabilityErrorWitness ==
    /\ thrown = "PolishError"
    /\ error = "PolishError"
    /\ pc = "failed"
    /\ depth = 4
    /\ Len(refLog) = 2
    /\ Len(polishLog) = 1
    /\ result = <<>>

(***************************************************************************)
(* C15. For every draft text t, saving t under a cache path and loading    *)
(* that path gives back exactly t.                                         *)
(***************************************************************************)
CacheRoundTrip ==
    Returned_from("save_load") => probe.out = probe.in

\* What the claim compares: the seven fields of a context, maps taken as
\* sets of entries whatever their key order.
Entries(d) == {d[2][i] : i \in 1..Len(d[2])}
SemanticContext(c) ==
    [stage_name |-> c.stage_name,
     user |-> DictGet(c.outline, "user", Scalar("\"\"")),
     window_start |-> DictGet(c.outline, "window_start", Scalar("\"\"")),
     window_end |-> DictGet(c.outline, "window_end", Scalar("\"\"")),
     target_value |-> c.target_value,
     totals |-> Entries(DictGet(c.outline, "totals", Dict(<<>>))),
     extra |-> IF IsDict(c.extra) THEN Entries(c.extra) ELSE {}]

(***************************************************************************)
(* C16. Two contexts get equal digests exactly when their stage name,      *)
(* user, window_start, window_end, target_value, totals and extra map are  *)
(* equal, whatever the key order of the outline, totals and extra.         *)
(***************************************************************************)
FingerprintTellsContexts ==
    Returned_from("fingerprint") =>
        ((probe.out[1] = probe.out[2])
            <=> (SemanticContext(probe.in[1]) = SemanticContext(probe.in[2])))

\* Equal digests for two contexts written in different key orders.
FingerprintWitness ==
    /\ Returned_from("fingerprint")
    /\ probe.out[1] = probe.out[2]
    /\ probe.in[1].extra # probe.in[2].extra
    /\ IsDict(probe.in[1].extra)
    /\ IsDict(probe.in[2].extra)
    /\ probe.in[1].outline # probe.in[2].outline
    /\ DictGet(probe.in[1].outline, "totals", None) # DictGet(probe.in[2].outline, "totals", None)

(***************************************************************************)
(* C17. For every item identifier, repo_slug returns a non-empty text of   *)
(* characters in [a-z0-9._-] only, so without a path separator.            *)
(***************************************************************************)
SlugIsOneSafeSegment ==
    Returned_from("repo_slug") =>
        /\ probe.out # <<>>
        /\ \A i \in 1..Len(probe.out) :
              probe.out[i] \in SlugChars /\ probe.out[i] \notin {"/", "\\"}

\* "B/" and U+00E9 give "b__": lowered, the separator replaced, the rest dropped.
SlugWitness ==
    /\ Returned_from("repo_slug")
    /\ probe.in = <<"B", "/", "U+00E9">>
    /\ probe.out = <<"b", "_", "_">>

(***************************************************************************)
(* C18. For one cache directory, two (item identifier, fingerprint) pairs  *)
(* get the same path only if they are the same pair.                       *)
(***************************************************************************)
OneFilePerItemAndContext ==
    Returned_from("build_cache_path") =>
        (probe.out[1] = probe.out[2] => probe.in[1] = probe.in[2])

(***************************************************************************)
(* C19. parse_referee_winner always returns one of the two labels.  It     *)
(* returns label A exactly when the text holds a winner marker (the        *)
(* leftmost one the pattern matches) whose trimmed content equals label A  *)
(* whatever the case, and label B otherwise: no marker, a marker never     *)
(* closed or broken over lines, or other content.                          *)
(***************************************************************************)
ParseDefaultsToSecondLabel ==
    (Returned_from("parse_referee_winner") /\ probe.in[2] # probe.in[3]) =>
        LET raw == probe.in[1]
            label_a == probe.in[2]
            label_b == probe.in[3]
        IN  /\ probe.out \in {label_a, label_b}
            /\ probe.out = label_a <=>
                  /\ MatchStarts(raw) # {}
                  /\ Lower(Group1(raw)) = Lower(label_a)

\* A marker in upper case with blanks around the label in the other case.
ParseWinnerWitness ==
    /\ Returned_from("parse_referee_winner")
    /\ probe.in = <<<<"<winner>", " ", "a", "</WINNER>">>, <<"A">>, <<"B">>>>
    /\ probe.out = <<"A">>

(***************************************************************************)
(* C20. For a draft list of length n, build_referee_brackets returns       *)
(* exactly n \div 2 pairs, pair k (from 0) being (drafts[2k], drafts[2k+1]) *)
(* in the list's 0-based indices; a draft left over is dropped.            *)
(***************************************************************************)
BracketsPairAdjacentDrafts ==
    Returned_from("build_referee_brackets") =>
        LET n == Len(probe.in)
        IN  /\ Len(probe.out) = n \div 2
            /\ \A k \in 0..((n \div 2) - 1) :
                  probe.out[k + 1] = <<probe.in[2 * k + 1], probe.in[2 * k + 2]>>

\* Five drafts give two pairs and the fifth is left out.
BracketsOddWitness ==
    /\ Returned_from("build_referee_brackets")
    /\ probe.in = <<<<"x">>, <<"y">>, <<"y">>, <<"x">>, <<"y">>>>
    /\ probe.out = <<<<<<"x">>, <<"y">>>>, <<<<"y">>, <<"x">>>>>>

\* The run is over, by a return or by an exception.
Ended == pc \in {"done", "failed"}

(***************************************************************************)
(* C21. A call with a logger, answered by the capabilities as the same     *)
(* call without a logger was, reads and writes the same cache files, calls *)
(* the same capabilities with the same arguments, leaves the same cache    *)
(* and ends with the same text or error; only the logger's lines differ.   *)
(***************************************************************************)
LoggerIsObservational ==
    (Ended /\ first # <<>> /\ DeterministicCapabilities) =>
        /\ logger # None
        /\ hitLog = first[1].hitLog
        /\ genLog = first[1].genLog
        /\ refLog = first[1].refLog
        /\ polishLog = first[1].polishLog
        /\ qcLog = first[1].qcLog
        /\ cacheReads = first[1].cacheReads
        /\ cacheWrites = first[1].cacheWrites
        /\ cache = first[1].cache
        /\ result = first[1].result
        /\ error = first[1].error

\* A depth-4 continue-mode call with cached and generated drafts and a
\* rejected polish result: the logger got its seven lines and the outcome
\* is that of the call without a logger.
LoggerWitness ==
    /\ Completed
    /\ first # <<>>
    /\ DeterministicCapabilities
    /\ depth = 4
    /\ continue_mode
    /\ Len(hitLog) = 2
    /\ Len(genLog) = 2
    /\ genLog[1] # EmptyText
    /\ issue = Some(<<"bad">>)
    /\ Len(logged) = 7
    /\ result = first[1].result
    /\ result # Some(EmptyText)

\* The phases of a run in the order of the code.
PhaseRank(p) ==
    CASE p = "idle" -> 0
      [] p = "generate" -> 1
      [] p = "referee" -> 2
      [] p = "polish" -> 3
      [] p = "quality" -> 4
      [] OTHER -> 5

(***************************************************************************)
(* C22. Within a run: once generate has been called no referee, polish or  *)
(* quality-check call has yet been made; once the referee has been called  *)
(* all drafts are there and no polish or quality-check call has been made; *)
(* polish is called before the quality check; nothing is called once the   *)
(* result is returned; and the run never goes back to an earlier phase.    *)
(***************************************************************************)
PhaseOrdering ==
    [][(run' = run) =>
          /\ PhaseRank(pc') >= PhaseRank(pc)
          /\ genLog' # genLog =>
                refLog' = <<>> /\ polishLog' = <<>> /\ qcLog' = <<>> /\ result' = <<>>
          /\ refLog' # refLog =>
                /\ Len(drafts') = draft_count' /\ genLog' = genLog
                /\ polishLog' = <<>> /\ qcLog' = <<>> /\ result' = <<>>
          /\ polishLog' # polishLog =>
                /\ Len(winners') = Len(brackets') /\ refLog' = refLog /\ genLog' = genLog
                /\ Len(polishLog') = 1 /\ qcLog' = <<>> /\ result' = <<>>
          /\ qcLog' # qcLog =>
                /\ Len(polishLog') = 1 /\ polishLog' = polishLog
                /\ refLog' = refLog /\ genLog' = genLog
                /\ Len(qcLog') = 1
          /\ result # <<>> =>
                UNCHANGED <<genLog, refLog, polishLog, qcLog>>]_vars

\* A depth-4 run that went through every phase.
PhaseOrderingWitness ==
    /\ Completed
    /\ depth = 4
    /\ Len(genLog) = 4
    /\ Len(refLog) = 2
    /\ Len(polishLog) = 1
    /\ Len(qcLog) = 1
    /\ result # <<>>

\* The indices of the current run for which generate returned a draft.
GeneratedIndices == {i \in 0..(Len(drafts) - 1) : \A k \in 1..Len(hitLog) : hitLog[k] # i}

(***************************************************************************)
(* C23. The draft generated for an index is in the cache before generate   *)
(* is called for the next one, so when generate raises at index k the      *)
(* entries of the indices below k are in the cache; and the continue-mode  *)
(* run that follows calls generate for indices >= k only.                  *)
(***************************************************************************)
WriteThroughAndResume ==
    /\ (Started /\ validate_depth(depth) = Returned("None")) =>
          \A i \in 0..(Len(drafts) - 1) :
              /\ PathOf(i) \in DOMAIN cache
              /\ i \in GeneratedIndices => cache[PathOf(i)] = drafts[i + 1]
    /\ first # <<>> =>
          /\ \A i \in GeneratedIndices : i >= first[1].failed_at
          /\ thrown = "GenerateError" => Len(drafts) >= first[1].failed_at

\* The text holds more than one winner marker: two matches of the pattern,
\* the second starting after the first has closed.
MoreThanOneMarker(raw) ==
    \E s \in MatchStarts(raw), t \in MatchStarts(raw) : Min(ClosesAfter(raw, s)) < t

(***************************************************************************)
(* C24. A referee verdict holding more than one winner marker, for example *)
(* one naming label A followed by one naming label B, is a parse miss:     *)
(* parse_referee_winner returns the second label.                          *)
(***************************************************************************)
AmbiguousVerdictIsParseMiss ==
    (/\ Returned_from("parse_referee_winner")
     /\ probe.in[2] # probe.in[3]
     /\ MoreThanOneMarker(probe.in[1])) =>
        probe.out = probe.in[3]

(***************************************************************************)
(* C25. At depth 4 with a referee whose verdict depends only on the pair   *)
(* it is given, the two comparisons taken in any order or overlapping, the *)
(* survivors being put back in bracket order, give the polish input and    *)
(* the fallback draft of the loop as written, and so the text returned:    *)
(* polish is called on that input, and the result is its text or, when the *)
(* quality check fails, that fallback.                                     *)
(***************************************************************************)
BracketOrderIndependence ==
    (depth = 4 /\ first # <<>> /\ pc \in {"polish", "quality", "done"}) =>
        /\ first[1].drafts_for_polish = drafts_for_polish
        /\ first[1].best_unpolished = best_unpolished
        /\ pc \in {"quality", "done"} =>
              polishLog = <<<<first[1].drafts_for_polish, 4>>>>
        /\ pc = "done" =>
              result = IF issue[1] # EmptyText THEN first[1].best_unpolished ELSE polished

\* The second comparison finished before the first, the two brackets have
\* different survivors, and the run has returned.
BracketOrderWitness ==
    /\ depth = 4 /\ first # <<>> /\ pc = "done"
    /\ first[1].finished = <<1, 0>>
    /\ Len(drafts_for_polish) = 2
    /\ drafts_for_polish[1] # drafts_for_polish[2]
    /\ winner_labels = <<DraftLabel(1), DraftLabel(4)>>
    /\ result = best_unpolished

\* The indices for which both of the two calls missed the cache and generated.
BothGenerated ==
    {i \in 0..(first[1].depth - 1) :
        \A proc \in Procs : i \in first[1].procs[proc].generated}

DraftOf(proc, i) == first[1].procs[proc].drafts[i + 1]

WrittenByLaterRun(i) == \E k \in 1..Len(cacheWrites) : cacheWrites[k] = RacePath(i)

LoadedByLaterRun(i) == Len(drafts) > i /\ \E k \in 1..Len(hitLog) : hitLog[k] = i

(***************************************************************************)
(* C26. Two continue-mode calls at the same time over the same directory,  *)
(* prefix and depth can both miss an index and both generate for it.  The  *)
(* entry then never holds both drafts: it is no longer than the longer of  *)
(* the two, and when the two have the same length or one is empty it is    *)
(* exactly one of them.  Each call keeps the draft it generated, and a     *)
(* later continue-mode call that loads the index gets the entry, so it     *)
(* reproduces at most one of two different drafts.                         *)
(***************************************************************************)
RaceKeepsOneDraft ==
    BothLeftLoop =>
        \A i \in BothGenerated :
            LET draft_1 == DraftOf(1, i)
                draft_2 == DraftOf(2, i)
                entry == cache[RacePath(i)]
            IN  /\ ~WrittenByLaterRun(i) =>
                      /\ Len(entry) <= Len(draft_1) \/ Len(entry) <= Len(draft_2)
                      /\ (Len(draft_1) = Len(draft_2) \/ draft_1 = <<>> \/ draft_2 = <<>>) =>
                             entry \in {draft_1, draft_2}
                /\ LoadedByLaterRun(i) =>
                      /\ drafts[i + 1] = entry
                      /\ draft_1 # draft_2 =>
                             Cardinality({proc \in Procs : DraftOf(proc, i) = drafts[i + 1]}) <= 1

\* Both calls missed index 0 and generated different drafts for it, the
\* second wrote last, and the later call was served the second's draft.
RaceWitness ==
    /\ BothLeftLoop
    /\ pc = "done"
    /\ 0 \in BothGenerated
    /\ DraftOf(1, 0) = <<"C", "1">>
    /\ DraftOf(2, 0) = <<"D", "1">>
    /\ cache[RacePath(0)] = <<"D", "1">>
    /\ LoadedByLaterRun(0)
    /\ drafts[1] = DraftOf(2, 0)
    /\ drafts[1] # DraftOf(1, 0)
    /\ genLog = <<>>

(***************************************************************************)
(* C27. In a calling stage at depth 4 the verdict the referee wrapper      *)
(* returns names one of the two labels the orchestrator parses against,    *)
(* and the draft that survives the bracket is the physical draft the       *)
(* backend named, whichever label assignment the wrapper drew.             *)
(***************************************************************************)
StageRefereeNamesSurvivor ==
    Returned_from("stage_bracket") =>
        /\ Group1(probe.out.raw) \in
               {DraftLabel(probe.in[3] * 2 + 1), DraftLabel(probe.in[3] * 2 + 2)}
        /\ probe.out.survivor = probe.out.named

\* A draft is about the blog text of the current invocation, or empty.
FromThisBlog(draft) == draft # EmptyText => draft[1] = first[1].blog_text

(***************************************************************************)
(* C28. In the Bluesky stage at depth 2 or more, every draft given to the  *)
(* referee or to polish in an invocation was generated from the blog text  *)
(* of that invocation, whatever invocations went before.                   *)
(***************************************************************************)
BlueskyDraftsFromThisBlog ==
    (Started /\ first # <<>>) =>
        /\ \A k \in 1..Len(refLog) : FromThisBlog(refLog[k][1]) /\ FromThisBlog(refLog[k][2])
        /\ \A k \in 1..Len(polishLog) :
               \A j \in 1..Len(polishLog[k][1]) : FromThisBlog(polishLog[k][1][j])

(***************************************************************************)
(* C29. For a text longer than chunk_size and 0 <= overlap < chunk_size,   *)
(* chunk_text returns at least two chunks, every chunk but the last is     *)
(* exactly chunk_size long, and each chunk starts chunk_size - overlap     *)
(* characters after the one before.                                        *)
(***************************************************************************)
ChunksFullAndEvenlySpaced ==
    (/\ Returned_from("chunk_text")
     /\ Len(probe.in[1]) > probe.in[2]
     /\ 0 <= probe.in[3] /\ probe.in[3] < probe.in[2]) =>
        /\ Len(probe.out) >= 2
        /\ \A k \in 1..(Len(probe.out) - 1) :
               /\ Len(probe.out[k]) = probe.in[2]
               /\ probe.starts[k + 1] = probe.starts[k] + (probe.in[2] - probe.in[3])

(***************************************************************************)
(* C30. chunk_text returns for every text and every pair of integers the   *)
(* two command-line options can give, overlap >= chunk_size included.      *)
(***************************************************************************)
ChunkTextTerminates == <>(probe.fn = "chunk_text" /\ probe.done)

====
